---- MODULE Spec2Model ----
(***************************************************************************)
(* Push-based FRP core of synx-frp: source events (Event.create), the      *)
(* derived events built by map / filter / concat / zip / switch, the       *)
(* reactive values produced by fold, stepper and ap, and the release of    *)
(* subscriptions by unsubscribe and cleanup.  An emit call runs the whole  *)
(* synchronous chain of handler invocations before it returns, so one emit *)
(* is one action.                                                          *)
(***************************************************************************)
EXTENDS Integers, Sequences, FiniteSets, TLC

\* ------------------------------------------------------------------------
\* Bounds of the exploration
\* ------------------------------------------------------------------------
MaxEmits == 3
MaxVal == 3

\* JavaScript null, kept apart from every number an event carries
Null == -1

Values == {Null} \cup (1..MaxVal)

\* The value the mapping function throws on
BadVal == 3

\* The user handler hRe emits Reemitted on the stream it is subscribed to
\* while it is notified of Trigger
Trigger == 1

Reemitted == 2

\* a and b carry values; sel is the event of events given to switch (its
\* occurrence k stands for the event SelStream[k]); sw is the source event
\* switch creates for its result; i1, i2, ... are the source events the
\* function given to chain creates, one per call
Sources == {"a", "b", "sel", "sw", "i1", "i2", "i3", "i4"}

SelStream == <<"a", "b">>

\* The event the k-th call of the function given to chain returns
InnerStream == <<"i1", "i2", "i3", "i4">>

\* ------------------------------------------------------------------------
\* The event graph under test.  Every entry is one EventImpl and records
\* how its future was built.
\* ------------------------------------------------------------------------
StreamDef ==
    [ a     |-> [k |-> "source"],
      b     |-> [k |-> "source"],
      a_id  |-> [k |-> "map", parent |-> "a", f |-> "id"],
      a_f   |-> [k |-> "map", parent |-> "a", f |-> "F"],
      a_f_g |-> [k |-> "map", parent |-> "a_f", f |-> "G"],
      a_gf  |-> [k |-> "map", parent |-> "a", f |-> "GF"],
      a_t   |-> [k |-> "map", parent |-> "a", f |-> "T"],
      a_dbl |-> [k |-> "map", parent |-> "a", f |-> "F"],
      a_p   |-> [k |-> "filter", parent |-> "a", p |-> "P"],
      ab    |-> [k |-> "concat", left |-> "a", right |-> "b"],
      z     |-> [k |-> "zip", left |-> "a", right |-> "b"],
      sel   |-> [k |-> "source"],
      sw    |-> [k |-> "source"],
      c     |-> [k |-> "chain", parent |-> "a"],
      i1    |-> [k |-> "source"],
      i2    |-> [k |-> "source"],
      i3    |-> [k |-> "source"],
      i4    |-> [k |-> "source"] ]

Streams == DOMAIN StreamDef

\* Reactive values returned by fold: the folded event, seed and function
FoldDef ==
    [ r_sum  |-> [event |-> "a", initial |-> 0, f |-> "add"],
      r_dsum |-> [event |-> "a_dbl", initial |-> 0, f |-> "add"],
      r_tsum |-> [event |-> "a", initial |-> 0, f |-> "addT"],
      r_fn   |-> [event |-> "a", initial |-> 0, f |-> "add"],
      r_fb   |-> [event |-> "b", initial |-> 0, f |-> "add"] ]

Folds == DOMAIN FoldDef

\* Reactive values returned by stepper, in the order they are constructed
Steppers == <<"st1", "st2">>

\* Reactive values returned by ap: x.ap(rf).  The function rf holds is
\* (y) => y + n, written n
ApDef ==
    [ r_ap  |-> [x |-> "r_sum", rf |-> "r_fn"],
      r_apb |-> [x |-> "r_sum", rf |-> "r_fb"] ]

Aps == DOMAIN ApDef

\* Reactive values returned by ReactiveImpl.chain: p.chain(f), where f
\* returns the reactive `zero` for the value 0 and `other` for any other
ChainDef == [ r_ch |-> [p |-> "r_sum", zero |-> "r_fb", other |-> "r_fn"] ]

Chains == DOMAIN ChainDef

\* Reactive values returned by ReactiveImpl.map: parent.map(f)
MapDef == [ r_m |-> [parent |-> "r_sum", f |-> "F"] ]

Maps == DOMAIN MapDef

\* User handlers (each appends what it receives to its log) and the event
\* or reactive each one is subscribed to
Target ==
    [ hS  |-> "a",     hId |-> "a_id",
      hFG |-> "a_f_g", hGF |-> "a_gf",
      hT1 |-> "a_t",   hT2 |-> "a_t",
      hP  |-> "a_p",   hC  |-> "ab",
      hZ  |-> "z",     hZ2 |-> "z",
      hR  |-> "r_sum", hRT |-> "r_tsum",
      hS2 |-> "a",     hX  |-> "a",
      hRI |-> "r_sum",
      hA  |-> "r_ap",  hSt |-> "st1",
      hW  |-> "sw",    hB  |-> "b",
      hCh |-> "c",     hRe |-> "a",
      hFr |-> "r_sum", hK  |-> "a",
      hV  |-> "a",     hD1 |-> "d",
      hD2 |-> "d",     hD3 |-> "d" ]

Handlers == DOMAIN Target

\* A fixture is one test set-up: the handlers, folds and aps it wires, the
\* emit calls it makes (source and value), and what it releases: the
\* handlers whose unsubscribe function it calls (unsubs), the events and
\* reactives it cleans up (cleans, rcleans), the events it calls stepper on,
\* the handlers it registers through subscribeInternal(handler, false), and
\* whether it builds the switch of a and sel, the reactives it builds with
\* ReactiveImpl.chain, the events whose cleanup it wraps in a counting spy,
\* the events it calls the emit method of, whether it forces a Future, the
\* handlers it runs a Future.fromReactive with (fromr), the reactives it
\* builds with ReactiveImpl.map (maps) and calls changes on (changes), and
\* the handlers it registers a second time (twice)
Plain ==
    [ handlers |-> {}, folds |-> {}, aps |-> {}, emits |-> {"a"} \X Values,
      unsubs |-> {}, cleans |-> {}, rcleans |-> {}, steppers |-> {},
      internal |-> {}, switch |-> FALSE, chains |-> {}, spied |-> {},
      emitsOn |-> {}, forces |-> FALSE, fromr |-> {}, maps |-> {},
      changes |-> {}, twice |-> {} ]

\* The set-ups that subscribe and emit only
FixtureDef ==
    [ identity |-> [handlers |-> {"hS", "hId"}] @@ Plain,
      compose  |-> [handlers |-> {"hFG", "hGF"}] @@ Plain,
      mapping  |-> [handlers |-> {"hT1", "hT2"}] @@ Plain,
      filter   |-> [handlers |-> {"hP", "hS"}] @@ Plain,
      concat   |-> [handlers |-> {"hC"},
                    emits |-> {"a", "b"} \X Values] @@ Plain,
      zip      |-> [handlers |-> {"hZ", "hZ2"},
                    emits |-> {"a", "b"} \X Values] @@ Plain,
      fold     |-> [handlers |-> {"hR"}, folds |-> {"r_sum", "r_dsum"}] @@ Plain,
      foldthrow |-> [handlers |-> {"hRT", "hS"}, folds |-> {"r_tsum"}] @@ Plain ]

\* The set-ups that also release subscriptions, build steppers or switch.
\* What they emit only has to tell one occurrence from the next.
ReleaseDef ==
    [ unsub    |-> [handlers |-> {"hS", "hS2", "hId"},
                    emits |-> {"a"} \X {1, 2},
                    unsubs |-> {"hS", "hId"}] @@ Plain,
      subthrow |-> [handlers |-> {"hX", "hS"},
                    emits |-> {"a"} \X {1, BadVal}] @@ Plain,
      rsub     |-> [handlers |-> {"hR", "hRI"}, folds |-> {"r_sum"},
                    emits |-> {"a"} \X {1, 2}, internal |-> {"hRI"},
                    rcleans |-> {"r_sum"}] @@ Plain,
      stepper  |-> [handlers |-> {"hSt"}, steppers |-> {"a"},
                    emits |-> {"a"} \X {1, 2}, cleans |-> {"a"},
                    rcleans |-> {"st1"}] @@ Plain,
      cleanup  |-> [handlers |-> {"hFG", "hP"}, emits |-> {"a"} \X {1, 2},
                    cleans |-> {"a", "a_f_g", "a_p"}] @@ Plain,
      cleanup2 |-> [handlers |-> {"hC", "hZ"}, emits |-> {"a", "b"} \X {1},
                    cleans |-> {"ab", "z"}] @@ Plain,
      rclean   |-> [handlers |-> {"hA"}, folds |-> {"r_sum", "r_fn"},
                    aps |-> {"r_ap"}, emits |-> {"a"} \X {1, 2},
                    rcleans |-> {"r_ap"}] @@ Plain,
      switch   |-> [handlers |-> {"hW", "hB"},
                    emits |-> {<<"a", 1>>, <<"b", 2>>} \cup ({"sel"} \X {1, 2}),
                    switch |-> TRUE] @@ Plain ]

ReleaseFixtures == DOMAIN ReleaseDef

\* The set-ups for dynamic re-subscription (switch cleanup, chain), misuse,
\* re-entrant emission, ap, and the promotion of a source event
DynamicDef ==
    [ swclean |-> [handlers |-> {"hW"},
                   emits |-> {<<"a", 1>>, <<"b", 2>>, <<"sel", 2>>},
                   switch |-> TRUE, cleans |-> {"sw"},
                   spied |-> {"a", "b"}] @@ Plain,
      chain   |-> [handlers |-> {"hCh", "hS"},
                   emits |-> {<<"a", 1>>, <<"i1", 2>>},
                   unsubs |-> {"hCh"}, cleans |-> {"c"},
                   spied |-> {"i1", "i2", "i3", "i4"}] @@ Plain,
      misuse  |-> [handlers |-> {"hId"}, emits |-> {<<"a", 1>>},
                   emitsOn |-> {"a_id"}, forces |-> TRUE] @@ Plain,
      reenter |-> [handlers |-> {"hRe", "hS"},
                   emits |-> {"a"} \X {Trigger, BadVal}] @@ Plain,
      ap      |-> [folds |-> {"r_sum", "r_fb"}, aps |-> {"r_apb"},
                   emits |-> {"a", "b"} \X {1, 2}] @@ Plain,
      rchain  |-> [folds |-> {"r_sum", "r_fn", "r_fb"}, chains |-> {"r_ch"},
                   emits |-> {<<"a", 1>>, <<"b", 2>>}] @@ Plain,
      promote |-> [handlers |-> {"hS", "hS2"}, unsubs |-> {"hS"},
                   emits |-> {"a"} \X {1, 2}] @@ Plain ]

DynamicFixtures == DOMAIN DynamicDef

\* The set-ups for registration with a reactive and for unregistration
\* during a delivery
RegisterDef ==
    [ fromr  |-> [handlers |-> {"hFr"}, folds |-> {"r_sum"},
                  fromr |-> {"hFr"}, emits |-> {"a"} \X {1, 2}] @@ Plain,
      unreg  |-> [handlers |-> {"hK", "hV", "hS"},
                  emits |-> {"a"} \X {1, 2}] @@ Plain,
      dunreg |-> [handlers |-> {"hD1", "hD2", "hD3"},
                  emits |-> {"d"} \X {1, 2}] @@ Plain,
      swone  |-> [handlers |-> {"hS", "hW"}, switch |-> TRUE,
                  emits |-> {<<"a", 1>>, <<"b", 2>>}
                               \cup ({"sel"} \X {1, 2})] @@ Plain,
      rmap   |-> [folds |-> {"r_sum"}, maps |-> {"r_m"},
                  changes |-> {"r_sum"}, emits |-> {"a"} \X {1, 2}] @@ Plain,
      rezip  |-> [handlers |-> {"hZ", "hZ2"}, unsubs |-> {"hZ"},
                  emits |-> ({"a"} \X {1, 2}) \cup {<<"b", 1>>}] @@ Plain,
      again  |-> [handlers |-> {"hR"}, folds |-> {"r_sum"},
                  twice |-> {"hR"}, unsubs |-> {"hR"},
                  emits |-> {"a"} \X {1, 2}] @@ Plain ]

RegisterFixtures == DOMAIN RegisterDef

Wiring == FixtureDef @@ ReleaseDef @@ DynamicDef @@ RegisterDef

Fixtures == DOMAIN FixtureDef

\* ------------------------------------------------------------------------
\* User-supplied functions
\* ------------------------------------------------------------------------
\* ToNumber as applied by the arithmetic operators: null counts as 0
Num(x) == IF x = Null THEN 0 ELSE x

FnThrows(f, x) == f = "T" /\ x = BadVal

ApplyFn(f, x) ==
    CASE f = "id" -> x
      [] f = "F"  -> Num(x) * 2
      [] f = "G"  -> Num(x) + 5
      [] f = "GF" -> (Num(x) * 2) + 5
      [] f = "T"  -> Num(x) * 2

\* Predicate P dereferences its argument, so it throws on null; it accepts
\* the odd numbers
PredThrows(p, x) == p = "P" /\ x = Null

PredHolds(p, x) == p = "P" /\ x % 2 = 1

FoldThrows(f, acc, x) == f = "addT" /\ x = BadVal

\* The user handler hX throws on BadVal, after recording the value
HandlerThrows(h, x) == h = "hX" /\ x = BadVal

Reemits(h, x) == h = "hRe" /\ x = Trigger

\* The user handler hK calls, whenever it is notified, the unsubscribe
\* function that subscribing hV returned (if hV is subscribed by then)
Unregisters(h) == IF h = "hK" THEN "hV" ELSE "none"

\* The user handler hD1 of the source event d calls its own unsubscribe
\* function when it is notified
UnregistersItself(h) == h = "hD1"

\* The function given to ReactiveImpl.chain: the reactive it returns for the
\* value v of the parent
ChainFn(d, v) == IF v = 0 THEN d.zero ELSE d.other

\* The function value n applied to y: (y) => y + n
ApplyFnValue(n, y) == Num(y) + Num(n)

ApplyFold(f, acc, x) == acc + Num(x)


\* ------------------------------------------------------------------------
\* State
\* ------------------------------------------------------------------------
VARIABLES
    fixture,       \* the set-up under test
    reactive,      \* per source: whether Event.create's `reactive` is bound
    initialValue,  \* per source: Event.create's `initialValue`
    onFirstEmit,   \* per source: the queue of first-emit handlers
    rx,            \* per ReactiveImpl: currentValue and subscribers
    acc,           \* per fold: the accumulator closed over by its handler
    zipst,         \* per zip: latestA / hasA / latestB / hasB
    inner,         \* chain runs that hold a live inner subscription
    nextId,        \* identity given to the next closure created
    log,           \* per user handler: the values it was invoked with
    calls,         \* the invocations of mapping and folding functions
    emits,         \* the emit calls made so far, <<source, value>>
    subscribedAt,  \* per user handler: emit count when it subscribed, -1 before
    madeAt,        \* per reactive made by fold, stepper or ap, and for the
                   \* result of switch: emit count when it was made, -1 before
    escaped,       \* whether an emit call has thrown to its caller
    active,        \* per EventImpl: activeSubscriptions
    stepperReactive,      \* per EventImpl: the cached stepper, or "none"
    stepperInitialValue,  \* per EventImpl: the seed of the cached stepper
    rclean,        \* per ReactiveImpl: the unsubscribe functions cleanup calls
    swCurrent,     \* switch: currentEvent, "none" before switch is called
    swSub,         \* switch: currentSubscription
    order,         \* the user handlers invoked by the last emit, in order
    unsubOf,       \* per user handler: the function its subscribe returned
    frozen,        \* per user handler: length of its log when it was released
    rfrozen,       \* per reactive: its value when it was cleaned up
    subOrder,      \* the user handlers in the order they subscribed
    stepSeen,      \* per event: seed and result of its latest stepper call
                   \* since its latest cleanup, and whether an emit call
                   \* was made since
    stepObs,       \* the latest stepper call: whether it repeated the seed of
                   \* the call before it, whether it then returned the same
                   \* reactive and ran no future, and whether an emit call
                   \* was made between the two
    promotions,    \* per source: how often `reactive = r` was executed
    cleaned,       \* per spied event: how often its cleanup was invoked
    swEvents,      \* switch: eventsSubscription
    chainst,       \* per run of a chain future: currentInnerEvent and
                   \* currentInnerSub
    chainCalls,    \* how often the function given to chain was called
    future,        \* the Future under test: status and value
    resolver,      \* what the resolver of that Future returns when called
    forceObs,      \* the latest force / tryForce call and its outcome
    emitObs,       \* the latest call of the emit method of an event
    swGone,        \* the cleanup call on the result of switch
    againObs,      \* the latest repeated call of an unsubscribe function
    released,      \* per user handler: the order in which its unsubscribe
                   \* function and the cleanup of its event were first called
    dsubs,         \* the subscribers array of the source event d
    changeEvent,   \* the reactives whose changeEvent is set
    twice          \* the user handlers registered a second time

\* The observations of the calls made by user code
\* What registration with a reactive and the source event d add
reg == <<dsubs, changeEvent, twice>>

obs == <<future, resolver, forceObs, emitObs, swGone, againObs, released, reg>>

vars == <<fixture, reactive, initialValue, onFirstEmit, rx, acc, zipst, inner,
          nextId, log, calls, emits, subscribedAt, madeAt, escaped, active,
          stepperReactive, stepperInitialValue, rclean, swCurrent, swSub,
          order, unsubOf, frozen, rfrozen, subOrder, stepSeen, stepObs,
          promotions, cleaned, swEvents, chainst, chainCalls, obs>>

Zips == {"z"}

StepperIds == {Steppers[i] : i \in 1..Len(Steppers)}

Reactives == Sources \cup Folds \cup StepperIds \cup Aps \cup Chains \cup Maps

\* JavaScript undefined
Undefined == -2

\* The unsubscribe function that has nothing to release
NoSub == [k |-> "none"]

\* The mutable objects as one record, threaded through a synchronous call
\* chain; exc is set while an exception propagates
Heap ==
    [ reactive |-> reactive, initialValue |-> initialValue,
      onFirstEmit |-> onFirstEmit, rx |-> rx, acc |-> acc, zipst |-> zipst,
      inner |-> inner, nextId |-> nextId, log |-> log, calls |-> calls,
      active |-> active, stepperReactive |-> stepperReactive,
      stepperInitialValue |-> stepperInitialValue, rclean |-> rclean,
      swCurrent |-> swCurrent, swSub |-> swSub, order |-> order,
      promotions |-> promotions, cleaned |-> cleaned, swEvents |-> swEvents,
      chainst |-> chainst, chainCalls |-> chainCalls,
      ret |-> NoSub, exc |-> FALSE ]

\* try { ... } catch (error) { console.error(...) }
Catch(H) == [H EXCEPT !.exc = FALSE]

\* array.filter((x) => x !== h)
RECURSIVE Without(_, _)
Without(seq, h) ==
    IF seq = <<>> THEN <<>>
    ELSE IF Head(seq) = h THEN Without(Tail(seq), h)
    ELSE <<Head(seq)>> \o Without(Tail(seq), h)

\* ------------------------------------------------------------------------
\* Unsubscribe functions.  Each is a record saying what calling it releases.
\* ------------------------------------------------------------------------
\* The unsubscribe function subscribeInternal returns
ReactiveUnsub(r, h) == [k |-> "rsub", r |-> r, h |-> h]

\* Calling it:
\* this.subscribers = this.subscribers.filter((sub) => sub !== handler)
UnsubReactive(H, u) == [H EXCEPT !.rx[u.r].subs = Without(@, u.h)]

\* Returned by initialEmitValueFuture:
\* onFirstEmit = onFirstEmit.filter((h) => h !== handler)
UnsubFirstEmit(H, u) ==
    [H EXCEPT !.onFirstEmit[u.s] = SelectSeq(@, LAMBDA e : e.id # u.id)]

\* Returned by a run of a source event's future (chain): releases the outer
\* subscription and the live inner subscription, if there is one
UnsubChain(H, u) ==
    LET H1 == UnsubFirstEmit(H, u)
    IN IF u.id \in H1.inner
       THEN [UnsubReactive(H1, ReactiveUnsub(u.s, u.h))
                EXCEPT !.inner = @ \ {u.id}]
       ELSE H1

RECURSIVE Unsubscribe(_, _)
RECURSIVE CallCleanup(_, _)

\* if (currentInnerSub) currentInnerSub(), of the run id
ChainUnsubInner(H, id) ==
    IF H.chainst[id].sub # NoSub THEN Unsubscribe(H, H.chainst[id].sub)
    ELSE H

\* if (currentInnerEvent) currentInnerEvent.cleanup(), of the run id
ChainCleanupInner(H, id) ==
    IF H.chainst[id].event # "none" THEN CallCleanup(H, H.chainst[id].event)
    ELSE H

\* Returned by a run of the future of EventImpl.chain: outerSub(); then
\* currentInnerSub() and currentInnerEvent.cleanup() if they are set.  The
\* two variables are left as they are.
UnsubEventChain(H, u) ==
    ChainCleanupInner(ChainUnsubInner(Unsubscribe(H, u.outer), u.id), u.id)

\* UnsubTracked that forgets the subscription without releasing it
UnsubTrackedForgetOnly(H, u) == [H EXCEPT !.active[u.e] = @ \ {u.u}]

\* Returned by EventImpl.subscribe:
\* unsubscribe(); this.activeSubscriptions.delete(unsubscribe)
UnsubTracked(H, u) ==
    [Unsubscribe(H, u.u) EXCEPT !.active[u.e] = @ \ {u.u}]

\* Returned by concat and zip: sub1(); sub2()
UnsubBoth(H, u) == Unsubscribe(Unsubscribe(H, u.u1), u.u2)

Unsubscribe(H, u) ==
    CASE u.k = "none"    -> H
      [] u.k = "rsub"    -> UnsubReactive(H, u)
      [] u.k = "chain"   -> UnsubChain(H, u)
      [] u.k = "tracked" -> UnsubTracked(H, u)
      [] u.k = "both"    -> UnsubBoth(H, u)
      [] u.k = "echain"  -> UnsubEventChain(H, u)

RECURSIVE UnsubscribeEach(_, _)
UnsubscribeEach(H, us) ==
    IF us = <<>> THEN H
    ELSE UnsubscribeEach(Unsubscribe(H, Head(us)), Tail(us))

\* ReactiveCleanup that clears the subscribers and releases nothing
ReactiveCleanupKeepUpstream(H, r) == [H EXCEPT !.rx[r].subs = <<>>]

\* ReactiveImpl.cleanup, with the cleanup fold and ap install over it: the
\* unsubscribe functions the reactive holds are called, then the subscribers
\* are cleared; a stepper forgets its eventUnsubscribe
ReactiveCleanup(H, r) ==
    LET H1 == UnsubscribeEach(H, H.rclean[r])
    IN [H1 EXCEPT !.rx[r].subs = <<>>,
                  !.rclean[r] = IF r \in StepperIds THEN <<>> ELSE @]

\* this.activeSubscriptions.forEach((unsub) => { try { unsub() } ... })
RECURSIVE UnsubscribeAll(_, _)
UnsubscribeAll(H, us) ==
    IF us = {} THEN H
    ELSE LET u == CHOOSE x \in us : TRUE
         IN UnsubscribeAll(Unsubscribe(H, u), us \ {u})

\* ------------------------------------------------------------------------
\* Handler closures
\* ------------------------------------------------------------------------
UserH(h) == [k |-> "user", h |-> h]

MapH(f, next, id) == [k |-> "map", f |-> f, next |-> next, id |-> id]

FilterH(p, next, id) == [k |-> "filter", p |-> p, next |-> next, id |-> id]

FoldH(r) == [k |-> "fold", r |-> r]

ZipAH(z, next, id) == [k |-> "zipA", z |-> z, next |-> next, id |-> id]

ZipBH(z, next, id) == [k |-> "zipB", z |-> z, next |-> next, id |-> id]

\* (newValue) => this.updateValueInternal(newValue), of a stepper
StepH(r) == [k |-> "step", r |-> r]

\* The two closures ap subscribes: to this reactive and to rf
ApValH(r) == [k |-> "apVal", r |-> r]

ApFnH(r) == [k |-> "apFn", r |-> r]

\* The emit function of the source event s, used as a handler by switch
EmitH(s) == [k |-> "emit", s |-> s]

\* The closure switch subscribes to the event of events
SwitchH == [k |-> "switch"]

\* The closure a run of the future of EventImpl.chain subscribes to the
\* outer event; id names the run
ChainH(next, id) == [k |-> "chain", next |-> next, id |-> id]

\* The closure ReactiveImpl.chain subscribes to the parent reactive
RChainH(r) == [k |-> "rchain", r |-> r]

\* (b) => result.updateValueInternal(b), subscribed to an inner reactive; a
\* new closure each time
RInnerH(r, id) == [k |-> "rinner", r |-> r, id |-> id]

\* ------------------------------------------------------------------------
\* Invocation of a handler closure with a value
\* ------------------------------------------------------------------------
RECURSIVE Call(_, _, _)
RECURSIVE ForEachSubscriber(_, _, _)
RECURSIVE EmitValue(_, _, _)
RECURSIVE EventSubscribe(_, _, _)
RECURSIVE EventCleanup(_, _)

\* ReactiveImpl.updateValueInternal
UpdateValueInternal(H, r, newValue) ==
    LET H1 == [H EXCEPT !.rx[r].cur = newValue]
    IN ForEachSubscriber(H1, H1.rx[r].subs, newValue)

\* this.subscribers.forEach((sub) => { try { sub(newValue) } catch ... })
ForEachSubscriber(H, hs, v) ==
    IF hs = <<>> THEN H
    ELSE ForEachSubscriber(Catch(Call(H, Head(hs), v)), Tail(hs), v)

\* if (notifyWithCurrent) { handler(this.currentValue) }
NotifyWithCurrent(H, r, h, notifyWithCurrent) ==
    IF notifyWithCurrent THEN Call(H, h, H.rx[r].cur) ELSE H

\* return u
Returning(H, u) == [H EXCEPT !.ret = u]

\* SubscribeInternal putting the new handler first: subscribers.unshift
SubscribeInternalFirst(H, r, h, notifyWithCurrent) ==
    LET H1 == [H EXCEPT !.rx[r].subs = <<h>> \o @]
        H2 == IF notifyWithCurrent THEN Call(H1, h, H1.rx[r].cur) ELSE H1
    IN [H2 EXCEPT !.ret = ReactiveUnsub(r, h)]

\* SubscribeInternal that never notifies with the current value
SubscribeInternalSilent(H, r, h, notifyWithCurrent) ==
    [H EXCEPT !.rx[r].subs = Append(@, h), !.ret = ReactiveUnsub(r, h)]

\* ReactiveImpl.subscribeInternal
SubscribeInternal(H, r, h, notifyWithCurrent) ==
    Returning(NotifyWithCurrent([H EXCEPT !.rx[r].subs = Append(@, h)],
                                r, h, notifyWithCurrent),
              ReactiveUnsub(r, h))

\* What a user handler does after it recorded the value: hRe calls emit on
\* its own source event when the value is Trigger, hK calls the unsubscribe
\* function of hV
UserActs(H, hd, v) ==
    IF Reemits(hd.h, v) THEN EmitValue(H, Target[hd.h], Reemitted)
    ELSE IF Unregisters(hd.h) # "none"
    THEN Unsubscribe(H, unsubOf[Unregisters(hd.h)])
    ELSE H

\* The user handler: values.push(value); hX then throws on BadVal, hRe and
\* hK go on as UserActs says
CallUser(H, hd, v) ==
    UserActs([H EXCEPT !.log[hd.h] = Append(@, v), !.order = Append(@, hd.h),
                       !.exc = HandlerThrows(hd.h, v)],
             hd, v)

\* A user-supplied function is entered: f, its argument, and the closure
\* that invoked it
Invoked(H, f, v, hd) ==
    [H EXCEPT !.calls = Append(@, [f |-> f, arg |-> v, by |-> hd])]

\* CallMap forwarding only truthy results: if (b) handler(b)
CallMapDropNull(H, hd, v) ==
    LET H0 == Invoked(H, hd.f, v, hd)
    IN IF FnThrows(hd.f, v) \/ ApplyFn(hd.f, v) = Null THEN H0
       ELSE Catch(Call(H0, hd.next, ApplyFn(hd.f, v)))

\* CallMap without the try / catch around handler(f(a))
CallMapNoCatch(H, hd, v) ==
    LET H0 == Invoked(H, hd.f, v, hd)
    IN IF FnThrows(hd.f, v) THEN [H0 EXCEPT !.exc = TRUE]
       ELSE Call(H0, hd.next, ApplyFn(hd.f, v))

\* The closure Future.map hands to its parent:
\* try { handler(f(a)) } catch (error) { console.error(...) }
CallMap(H, hd, v) ==
    LET H0 == Invoked(H, hd.f, v, hd)
    IN IF FnThrows(hd.f, v) THEN H0
       ELSE Catch(Call(H0, hd.next, ApplyFn(hd.f, v)))

\* The closure filter subscribes to its parent event
CallFilter(H, hd, v) ==
    IF PredThrows(hd.p, v) THEN H
    ELSE IF PredHolds(hd.p, v) THEN Catch(Call(H, hd.next, v))
    ELSE H

\* CallFold folding every occurrence onto the seed: f(initial, a)
CallFoldFromSeed(H, hd, v) ==
    LET f == FoldDef[hd.r].f
        H0 == Invoked(H, f, v, hd)
    IN IF FoldThrows(f, H0.acc[hd.r], v) THEN H0
       ELSE LET a2 == ApplyFold(f, FoldDef[hd.r].initial, v)
            IN Catch(UpdateValueInternal([H0 EXCEPT !.acc[hd.r] = a2], hd.r, a2))

\* CallFold falling back to the seed when f throws
CallFoldResetOnThrow(H, hd, v) ==
    LET f == FoldDef[hd.r].f
        H0 == Invoked(H, f, v, hd)
    IN IF FoldThrows(f, H0.acc[hd.r], v)
       THEN [H0 EXCEPT !.acc[hd.r] = FoldDef[hd.r].initial]
       ELSE LET a2 == ApplyFold(f, H0.acc[hd.r], v)
            IN Catch(UpdateValueInternal([H0 EXCEPT !.acc[hd.r] = a2], hd.r, a2))

\* The closure fold subscribes to its event
CallFold(H, hd, v) ==
    LET f == FoldDef[hd.r].f
        H0 == Invoked(H, f, v, hd)
    IN IF FoldThrows(f, H0.acc[hd.r], v) THEN H0
       ELSE LET a2 == ApplyFold(f, H0.acc[hd.r], v)
            IN Catch(UpdateValueInternal([H0 EXCEPT !.acc[hd.r] = a2], hd.r, a2))

\* ZipReady that does not look at the has-flag
ZipReadyAlways(has, latest) == TRUE

\* zip: whether the other side's value allows a pair to be emitted
ZipReady(has, latest) == has /\ latest # Null

\* The closure zip subscribes to this event
CallZipA(H, hd, a) ==
    LET H1 == [H EXCEPT !.zipst[hd.z].latestA = a, !.zipst[hd.z].hasA = TRUE]
        zs == H1.zipst[hd.z]
    IN IF ZipReady(zs.hasB, zs.latestB)
       THEN Call(H1, hd.next, <<a, zs.latestB>>)
       ELSE H1

\* The closure zip subscribes to the other event
CallZipB(H, hd, b) ==
    LET H1 == [H EXCEPT !.zipst[hd.z].latestB = b, !.zipst[hd.z].hasB = TRUE]
        zs == H1.zipst[hd.z]
    IN IF ZipReady(zs.hasA, zs.latestA)
       THEN Call(H1, hd.next, <<zs.latestA, b>>)
       ELSE H1

\* The stepper's closure
CallStep(H, hd, v) == UpdateValueInternal(H, hd.r, v)

\* ap: (a) => { const fn = rf.get(); result.updateValueInternal(fn(a)) }
CallApVal(H, hd, a) ==
    UpdateValueInternal(H, hd.r, ApplyFnValue(H.rx[ApDef[hd.r].rf].cur, a))

\* CallApFn that leaves the result as it is when the function changes
CallApFnIgnored(H, hd, fn) == H

\* ap: (fn) => result.updateValueInternal(fn(this.currentValue))
CallApFn(H, hd, fn) ==
    UpdateValueInternal(H, hd.r, ApplyFnValue(fn, H.rx[ApDef[hd.r].x].cur))

\* if (currentInnerSub) { currentInnerSub(); currentInnerSub = null }
ChainReleaseInner(H, id) ==
    IF H.chainst[id].sub # NoSub
    THEN [Unsubscribe(H, H.chainst[id].sub) EXCEPT !.chainst[id].sub = NoSub]
    ELSE H

\* if (currentInnerEvent) { currentInnerEvent.cleanup();
\* currentInnerEvent = null }
ChainCleanInner(H, id) ==
    IF H.chainst[id].event # "none"
    THEN [CallCleanup(H, H.chainst[id].event)
             EXCEPT !.chainst[id].event = "none"]
    ELSE H

\* currentInnerSub = <what subscribe returned>, inside the closure's try
ChainKeepInnerSub(H, id) == Catch([H EXCEPT !.chainst[id].sub = H.ret])

\* currentInnerEvent = f(a), which returns a new source event;
\* currentInnerSub = currentInnerEvent.subscribe(handler)
ChainSubscribeInner(H, hd) ==
    ChainKeepInnerSub(
        EventSubscribe([H EXCEPT !.chainCalls = @ + 1,
                                 !.chainst[hd.id].event =
                                     InnerStream[H.chainCalls + 1]],
                       InnerStream[H.chainCalls + 1], hd.next),
        hd.id)

\* CallChain that replaces the inner event without cleaning up the previous
CallChainKeepInner(H, hd, a) ==
    ChainSubscribeInner(ChainReleaseInner(H, hd.id), hd)

\* EventImpl.chain: the closure subscribed to the outer event.  The previous
\* inner subscription is released and the previous inner event cleaned up,
\* then f(a) is subscribed with the downstream handler.
CallChain(H, hd, a) ==
    ChainSubscribeInner(ChainCleanInner(ChainReleaseInner(H, hd.id), hd.id),
                        hd)

\* ReactiveImpl.chain: the closure subscribed to the parent reactive.  The
\* result takes the value of f(a) and one more closure is subscribed to
\* f(a); its unsubscribe function is put in front of the result's cleanup.
CallRChain(H, hd, a) ==
    LET q == ChainFn(ChainDef[hd.r], a)
        H1 == UpdateValueInternal(H, hd.r, H.rx[q].cur)
        H2 == SubscribeInternal([H1 EXCEPT !.nextId = @ + 1], q,
                                RInnerH(hd.r, H1.nextId), TRUE)
    IN [H2 EXCEPT !.rclean[hd.r] = <<H2.ret>> \o @]

\* ReactiveImpl.chain: the closure subscribed to an inner reactive
CallRInner(H, hd, b) == UpdateValueInternal(H, hd.r, b)

\* SwitchLeave that leaves the previous event as it is
SwitchLeaveNothing(H) == H

\* currentSubscription(); currentEvent.cleanup()
SwitchLeave(H) == CallCleanup(Unsubscribe(H, H.swSub), H.swCurrent)

\* currentSubscription = <what subscribe returned>
SwitchKeepSub(H) == [H EXCEPT !.swSub = H.ret]

\* currentEvent = newEvent; currentSubscription = newEvent.subscribe(emit)
SwitchEnter(H, ev) ==
    SwitchKeepSub(EventSubscribe([H EXCEPT !.swCurrent = ev], ev, EmitH("sw")))

\* switch: the closure subscribed to the event of events
CallSwitch(H, hd, v) == SwitchEnter(SwitchLeave(H), SelStream[v])

Call(H, hd, v) ==
    CASE hd.k = "user"   -> CallUser(H, hd, v)
      [] hd.k = "map"    -> CallMap(H, hd, v)
      [] hd.k = "filter" -> CallFilter(H, hd, v)
      [] hd.k = "fold"   -> CallFold(H, hd, v)
      [] hd.k = "zipA"   -> CallZipA(H, hd, v)
      [] hd.k = "zipB"   -> CallZipB(H, hd, v)
      [] hd.k = "step"   -> CallStep(H, hd, v)
      [] hd.k = "apVal"  -> CallApVal(H, hd, v)
      [] hd.k = "apFn"   -> CallApFn(H, hd, v)
      [] hd.k = "emit"   -> EmitValue(H, hd.s, v)
      [] hd.k = "switch" -> CallSwitch(H, hd, v)
      [] hd.k = "chain"  -> CallChain(H, hd, v)
      [] hd.k = "rchain" -> CallRChain(H, hd, v)
      [] hd.k = "rinner" -> CallRInner(H, hd, v)

\* ------------------------------------------------------------------------
\* Source events: Event.create
\* ------------------------------------------------------------------------
\* Future.fromReactive: deliver the current value to the handler at once and
\* subscribe it to the later updates
FromReactiveRun(H, r, h) == SubscribeInternal(H, r, h, TRUE)

\* A run of the future Future.fromReactive(reactive) of the computation
\* based Future: reactive.subscribeInternal(handler, false)
FromReactive(H, r, h) == SubscribeInternal(H, r, h, FALSE)

\* ChainCallback that binds `reactive` to the new ReactiveImpl on every call
ChainCallbackRebind(H, s, v) ==
    [H EXCEPT !.reactive[s] = TRUE, !.rx[s] = [cur |-> v, subs |-> <<>>],
              !.promotions[s] = @ + 1]

\* The callback Event.create gives to chain, called with a ReactiveImpl
\* newly made around v: the first call binds `reactive` (and innerFuture) to
\* it, every later call leaves the bound one in place
ChainCallback(H, s, v) ==
    IF H.reactive[s] THEN H
    ELSE [H EXCEPT !.reactive[s] = TRUE, !.rx[s] = [cur |-> v, subs |-> <<>>],
                   !.promotions[s] = @ + 1]

\* One first-emit handler receiving the first value: Future.reactive wraps
\* the value in a new ReactiveImpl and hands it to chain, which calls the
\* callback, discards this run's previous inner subscription and runs the
\* inner future with the downstream handler
CallFirstEmit(H, s, e, v) ==
    LET H1 == ChainCallback(H, s, v)
        H2 == IF e.id \in H1.inner
              THEN [H1 EXCEPT !.rx[s].subs = Without(@, e.h)]
              ELSE H1
    IN FromReactiveRun([H2 EXCEPT !.inner = @ \cup {e.id}], s, e.h)

\* onFirstEmit.forEach((handler) => handler(value)): nothing is caught here
RECURSIVE ForEachFirstEmit(_, _, _, _)

ForEachFirstEmit(H, s, es, v) ==
    IF es = <<>> \/ H.exc THEN H
    ELSE ForEachFirstEmit(CallFirstEmit(H, s, Head(es), v), s, Tail(es), v)

\* The emit function returned by Event.create
EmitValue(H, s, value) ==
    IF ~H.reactive[s]
    THEN LET H1 == [H EXCEPT !.initialValue[s] = value]
         IN ForEachFirstEmit(H1, s, H1.onFirstEmit[s], value)
    ELSE UpdateValueInternal(H, s, value)

\* Running a source event's future: the run ends in initialEmitValueFuture,
\* which pushes the run's handler onto onFirstEmit
RunSource(H, s, h) ==
    [H EXCEPT !.onFirstEmit[s] = Append(@, [id |-> H.nextId, h |-> h]),
              !.nextId = @ + 1,
              !.ret = [k |-> "chain", s |-> s, id |-> H.nextId, h |-> h]]

\* ------------------------------------------------------------------------
\* Futures of derived events, and EventImpl.subscribe
\* ------------------------------------------------------------------------
RECURSIVE RunFuture(_, _, _)

\* EventImpl.subscribe: this.future.run(handler); the unsubscribe function
\* it returned is tracked and wrapped
EventSubscribe(H, e, h) ==
    LET H1 == RunFuture(H, e, h)
    IN [H1 EXCEPT !.active[e] = @ \cup {H1.ret},
                  !.ret = [k |-> "tracked", e |-> e, u |-> H1.ret]]

\* EventCleanup that clears activeSubscriptions without calling them
EventCleanupClearOnly(H, e) ==
    LET H1 == [H EXCEPT !.active[e] = {}]
    IN IF H1.stepperReactive[e] # "none"
       THEN [ReactiveCleanup(H1, H1.stepperReactive[e])
                EXCEPT !.stepperReactive[e] = "none",
                       !.stepperInitialValue[e] = Undefined]
       ELSE H1

\* EventImpl.cleanup
EventCleanup(H, e) ==
    LET H1 == [UnsubscribeAll(H, H.active[e]) EXCEPT !.active[e] = {}]
    IN IF H1.stepperReactive[e] # "none"
       THEN [ReactiveCleanup(H1, H1.stepperReactive[e])
                EXCEPT !.stepperReactive[e] = "none",
                       !.stepperInitialValue[e] = Undefined]
       ELSE H1

\* The cleanup the result of switch gets in place of its own:
\* currentSubscription(); eventsSubscription(); originalCleanup()
SwitchCleanup(H) ==
    EventCleanup(Unsubscribe(Unsubscribe(H, H.swSub), H.swEvents), "sw")

\* event.cleanup() as a caller reaches it: a spied event counts the call,
\* and the result of switch runs the cleanup switch installed
CallCleanup(H, e) ==
    LET H1 == IF e \in Wiring[fixture].spied
              THEN [H EXCEPT !.cleaned[e] = @ + 1]
              ELSE H
    IN IF e = "sw" THEN SwitchCleanup(H1) ELSE EventCleanup(H1, e)

\* EventEmit that passes the value on to the source event a
EventEmitUnchecked(H, e, value) == EmitValue(H, "a", value)

\* EventImpl.emit: only an event with a source reactive may emit
EventEmit(H, e, value) ==
    IF StreamDef[e].k # "source" THEN [H EXCEPT !.exc = TRUE]
    ELSE UpdateValueInternal(H, e, value)

\* RunMap that runs the root source's computation, not its parent's
RunMapAtSource(H, e, h) ==
    LET d == StreamDef[e]
    IN RunFuture([H EXCEPT !.nextId = @ + 1], "a", MapH(d.f, h, H.nextId))

\* Future.map: run the parent's computation with the mapping closure
RunMap(H, e, h) ==
    LET d == StreamDef[e]
    IN RunFuture([H EXCEPT !.nextId = @ + 1], d.parent, MapH(d.f, h, H.nextId))

\* filter's future: subscribe the filtering closure to the parent event
RunFilter(H, e, h) ==
    LET d == StreamDef[e]
    IN EventSubscribe([H EXCEPT !.nextId = @ + 1], d.parent,
                      FilterH(d.p, h, H.nextId))

\* RunConcat that subscribes to this event only
RunConcatLeftOnly(H, e, h) == EventSubscribe(H, StreamDef[e].left, h)

\* concat's future: subscribe the same handler to this event, then to other
RunConcat(H, e, h) ==
    LET d == StreamDef[e]
        H1 == EventSubscribe(H, d.left, h)
        H2 == EventSubscribe(H1, d.right, h)
    IN [H2 EXCEPT !.ret = [k |-> "both", u1 |-> H1.ret, u2 |-> H2.ret]]

\* zip's future: subscribe one closure to this event, then one to other
RunZip(H, e, h) ==
    LET d == StreamDef[e]
        HA == EventSubscribe([H EXCEPT !.nextId = @ + 1], d.left,
                             ZipAH(e, h, H.nextId))
        HB == EventSubscribe([HA EXCEPT !.nextId = @ + 1], d.right,
                             ZipBH(e, h, HA.nextId))
    IN [HB EXCEPT !.ret = [k |-> "both", u1 |-> HA.ret, u2 |-> HB.ret]]

\* The future of EventImpl.chain: a run has its own currentInnerEvent and
\* currentInnerSub and subscribes one closure to the outer event
RunChain(H, e, h) ==
    LET id == H.nextId
        H1 == EventSubscribe(
                  [H EXCEPT !.nextId = @ + 1,
                            !.chainst = @ @@ (id :> [event |-> "none",
                                                     sub |-> NoSub])],
                  StreamDef[e].parent, ChainH(h, id))
    IN [H1 EXCEPT !.ret = [k |-> "echain", id |-> id, outer |-> H1.ret]]

RunFuture(H, e, h) ==
    CASE StreamDef[e].k = "source" -> RunSource(H, e, h)
      [] StreamDef[e].k = "chain"  -> RunChain(H, e, h)
      [] StreamDef[e].k = "map"    -> RunMap(H, e, h)
      [] StreamDef[e].k = "filter" -> RunFilter(H, e, h)
      [] StreamDef[e].k = "concat" -> RunConcat(H, e, h)
      [] StreamDef[e].k = "zip"    -> RunZip(H, e, h)

\* EventImpl.fold: a new ReactiveImpl seeded with initial, the accumulator,
\* and the subscription of the folding closure
FoldCreate(H, r) ==
    LET d == FoldDef[r]
        H1 == [H EXCEPT !.rx[r] = [cur |-> d.initial, subs |-> <<>>],
                        !.acc[r] = d.initial]
        H2 == EventSubscribe(H1, d.event, FoldH(r))
    IN [H2 EXCEPT !.rclean[r] = <<H2.ret>>]

\* StepperCall that never looks at the cache
StepperCallNoCache(H, e, seed, r) ==
    IF r = "none" THEN [H EXCEPT !.ret = H.stepperReactive[e]]
    ELSE LET H1 == [H EXCEPT !.rx[r] = [cur |-> seed, subs |-> <<>>]]
             H2 == EventSubscribe(H1, e, StepH(r))
         IN [H2 EXCEPT !.rclean[r] = <<H2.ret>>,
                       !.stepperReactive[e] = r,
                       !.stepperInitialValue[e] = seed,
                       !.ret = r]

\* EventImpl.stepper; r is the ReactiveImpl constructed if the cache misses.
\* The reactive returned is left in ret.
StepperCall(H, e, seed, r) ==
    IF H.stepperReactive[e] # "none" /\ H.stepperInitialValue[e] = seed
    THEN [H EXCEPT !.ret = H.stepperReactive[e]]
    ELSE LET H1 == [H EXCEPT !.rx[r] = [cur |-> seed, subs |-> <<>>]]
             H2 == EventSubscribe(H1, e, StepH(r))
         IN [H2 EXCEPT !.rclean[r] = <<H2.ret>>,
                       !.stepperReactive[e] = r,
                       !.stepperInitialValue[e] = seed,
                       !.ret = r]

\* ReactiveImpl.ap: the result starts as fn(currentValue) and subscribes one
\* closure to this reactive and one to rf, each notified at once
ApCreate(H, r) ==
    LET d == ApDef[r]
        init == ApplyFnValue(H.rx[d.rf].cur, H.rx[d.x].cur)
        H1 == [H EXCEPT !.rx[r] = [cur |-> init, subs |-> <<>>]]
        H2 == SubscribeInternal(H1, d.x, ApValH(r), TRUE)
        H3 == SubscribeInternal(H2, d.rf, ApFnH(r), TRUE)
    IN [H3 EXCEPT !.rclean[r] = <<H2.ret, H3.ret>>]

\* Event.switch(a, sel): the result is a new source event sw; its emit is
\* subscribed to the initial event, and the switching closure to sel
SwitchCreate(H) ==
    LET H1 == EventSubscribe([H EXCEPT !.swCurrent = "a"], "a", EmitH("sw"))
        H2 == [H1 EXCEPT !.swSub = H1.ret]
        H3 == EventSubscribe(H2, "sel", SwitchH)
    IN [H3 EXCEPT !.swEvents = H3.ret]

\* ReactiveImpl.chain: the result starts as f(currentValue).get(); the
\* closure subscribed to the parent is notified at once, and its
\* unsubscribe function is put in front of the result's cleanup
ChainCreate(H, r) ==
    LET d == ChainDef[r]
        q == ChainFn(d, H.rx[d.p].cur)
        H1 == [H EXCEPT !.rx[r] = [cur |-> H.rx[q].cur, subs |-> <<>>]]
        H2 == SubscribeInternal(H1, d.p, RChainH(r), TRUE)
    IN [H2 EXCEPT !.rclean[r] = <<H2.ret>> \o @]

\* new ReactiveImpl(initialValue, mappedEvent) with a mapped event: the
\* constructor subscribes its updating closure to the event, which runs
\* Future.fromReactive(parent).map(f)
RMapSubscribe(H, m) ==
    LET d == MapDef[m]
        H1 == FromReactive([H EXCEPT !.nextId = @ + 1], d.parent,
                           MapH(d.f, StepH(m), H.nextId))
    IN [H1 EXCEPT !.rclean[m] = <<H1.ret>>]

\* ReactiveImpl.map: the result starts as f(currentValue) and is given the
\* parent's changeEvent mapped with f, if the parent has a changeEvent
RMapCreate(H, m, hasChangeEvent) ==
    LET d == MapDef[m]
        H1 == [H EXCEPT !.rx[m] = [cur |-> ApplyFn(d.f, H.rx[d.parent].cur),
                                   subs |-> <<>>]]
    IN IF hasChangeEvent THEN RMapSubscribe(H1, m) ELSE H1

\* Future.force on a Future whose resolver returns res (Null for null): the
\* Future after the call, the value returned, and whether the call threw.
\* The time stored with the value is left out.
Force(fu, res) ==
    IF fu.status = "RESOLVED"
    THEN [fut |-> fu, ret |-> fu.value, threw |-> FALSE]
    ELSE IF res # Null
    THEN [fut |-> [status |-> "RESOLVED", value |-> res], ret |-> res,
          threw |-> FALSE]
    ELSE [fut |-> fu, ret |-> Null, threw |-> TRUE]

\* Future.tryForce: try { return this.force() } catch (error) { return null }
TryForce(fu, res) ==
    LET f == Force(fu, res)
    IN IF f.threw THEN [f EXCEPT !.ret = Null, !.threw = FALSE] ELSE f

\* ------------------------------------------------------------------------
\* Actions
\* ------------------------------------------------------------------------
\* The heap after a call returned becomes the state
Commit(H) ==
    /\ reactive' = H.reactive
    /\ initialValue' = H.initialValue
    /\ onFirstEmit' = H.onFirstEmit
    /\ rx' = H.rx
    /\ acc' = H.acc
    /\ zipst' = H.zipst
    /\ inner' = H.inner
    /\ nextId' = H.nextId
    /\ log' = H.log
    /\ calls' = H.calls
    /\ active' = H.active
    /\ stepperReactive' = H.stepperReactive
    /\ stepperInitialValue' = H.stepperInitialValue
    /\ rclean' = H.rclean
    /\ swCurrent' = H.swCurrent
    /\ swSub' = H.swSub
    /\ order' = H.order
    /\ promotions' = H.promotions
    /\ cleaned' = H.cleaned
    /\ swEvents' = H.swEvents
    /\ chainst' = H.chainst
    /\ chainCalls' = H.chainCalls

NotFrozen == [unsub |-> -1, cleanup |-> -1, upstream |-> -1]

NotSeen == [seed |-> Undefined, ret |-> "none", emitted |-> FALSE]

\* No force or tryForce call yet: the call, what the resolver returned to
\* it, whether it threw, the value it returned, and whether a force call
\* threw before it
NoForce ==
    [op |-> "none", res |-> Null, threw |-> FALSE, ret |-> Null,
     failed |-> FALSE]

\* No call of an emit method yet: whether it threw and whether it left every
\* value and every log as they were
NoEmit == [done |-> FALSE, threw |-> FALSE, same |-> TRUE]

\* cleanup of the result of switch not called yet: whether the call invoked
\* the cleanup of the event current at that time, that event, and the length
\* of every log after the call
NotGone == [done |-> FALSE, source |-> FALSE, cur |-> "none", logs |-> <<>>]

\* No repeated unsubscribe call yet: the handler, whether the call threw,
\* whether it invoked a cleanup, and whether it left the subscriber lists
\* and the active subscriptions as they were
NoAgain == [h |-> "none", threw |-> FALSE, cleaned |-> FALSE, same |-> TRUE]

\* Nothing created yet but the source events
Start ==
    /\ reactive = [s \in Sources |-> FALSE]
    /\ initialValue = [s \in Sources |-> Null]
    /\ onFirstEmit = [s \in Sources |-> <<>>]
    /\ rx = [r \in Reactives |-> [cur |-> Null, subs |-> <<>>]]
    /\ acc = [r \in Folds |-> Null]
    /\ zipst = [z \in Zips |-> [latestA |-> Null, hasA |-> FALSE,
                                latestB |-> Null, hasB |-> FALSE]]
    /\ inner = {}
    /\ nextId = 1
    /\ log = [h \in Handlers |-> <<>>]
    /\ calls = <<>>
    /\ emits = <<>>
    /\ subscribedAt = [h \in Handlers |-> -1]
    /\ madeAt = [r \in Folds \cup StepperIds \cup Aps \cup Chains \cup Maps
                         \cup {"sw"} |-> -1]
    /\ escaped = FALSE
    /\ active = [e \in Streams |-> {}]
    /\ stepperReactive = [e \in Streams |-> "none"]
    /\ stepperInitialValue = [e \in Streams |-> Undefined]
    /\ rclean = [r \in Reactives |-> <<>>]
    /\ swCurrent = "none"
    /\ swSub = NoSub
    /\ order = <<>>
    /\ unsubOf = [h \in Handlers |-> NoSub]
    /\ frozen = [h \in Handlers |-> NotFrozen]
    /\ rfrozen = [r \in Reactives |-> Undefined]
    /\ subOrder = <<>>
    /\ stepSeen = [e \in Streams |-> NotSeen]
    /\ stepObs = [repeat |-> FALSE, cached |-> FALSE, emitted |-> FALSE]
    /\ promotions = [s \in Sources |-> 0]
    /\ cleaned = [e \in Streams |-> 0]
    /\ swEvents = NoSub
    /\ chainst = <<>>
    /\ chainCalls = 0
    /\ future = [status |-> "PENDING", value |-> Null]
    /\ resolver = Null
    /\ forceObs = NoForce
    /\ emitObs = NoEmit
    /\ swGone = NotGone
    /\ againObs = NoAgain
    /\ released = [h \in Handlers |-> <<>>]
    /\ dsubs = <<>>
    /\ changeEvent = {}
    /\ twice = {}

Init == fixture \in Fixtures /\ Start

InitRelease == fixture \in ReleaseFixtures /\ Start

InitDynamic == fixture \in DynamicFixtures /\ Start

InitRegister == fixture \in RegisterFixtures /\ Start

\* The events e is derived from, directly or not
RECURSIVE Upstreams(_)
Upstreams(e) ==
    LET d == StreamDef[e]
    IN CASE d.k = "source" -> {}
         [] d.k \in {"map", "filter", "chain"} ->
                {d.parent} \cup Upstreams(d.parent)
         [] d.k \in {"concat", "zip"} ->
                {d.left, d.right} \cup Upstreams(d.left) \cup Upstreams(d.right)

\* The seeds stepper is called with
Seeds == {Null, 1}

\* The ReactiveImpl the next cache miss of stepper constructs
NextStepper ==
    LET free == {i \in 1..Len(Steppers) : madeAt[Steppers[i]] = -1}
    IN IF free = {} THEN "none"
       ELSE Steppers[CHOOSE i \in free : \A j \in free : i <= j]

\* The user handlers subscribed now whose target satisfies P are marked as
\* released in field fld, with the length of their log
Release(fld, P(_)) ==
    [h \in Handlers |->
        IF subscribedAt[h] # -1 /\ P(Target[h]) /\ frozen[h][fld] = -1
        THEN [frozen[h] EXCEPT ![fld] = Len(log[h])]
        ELSE frozen[h]]

\* event.subscribe(handler) by user code
Subscribe(h) ==
    /\ h \in Wiring[fixture].handlers
    /\ Target[h] \in Streams
    /\ Target[h] = "sw" => swCurrent # "none"
    /\ subscribedAt[h] = -1
    /\ LET H == EventSubscribe(Heap, Target[h], UserH(h))
       IN /\ Commit(H)
          /\ unsubOf' = [unsubOf EXCEPT ![h] = H.ret]
    /\ subscribedAt' = [subscribedAt EXCEPT ![h] = Len(emits)]
    /\ subOrder' = Append(subOrder, h)
    /\ UNCHANGED <<obs, fixture, emits, madeAt, escaped, frozen, rfrozen, stepSeen,
                   stepObs>>

\* event.fold(initial, f) by user code
Fold(r) ==
    /\ r \in Wiring[fixture].folds
    /\ madeAt[r] = -1
    /\ Commit(FoldCreate(Heap, r))
    /\ madeAt' = [madeAt EXCEPT ![r] = Len(emits)]
    /\ UNCHANGED <<obs, fixture, emits, subscribedAt, escaped, unsubOf, frozen,
                   rfrozen, subOrder, stepSeen, stepObs>>

\* reactive.subscribe(handler) by user code, on a reactive that fold,
\* stepper or ap returned
ReactiveSubscribe(h) ==
    /\ h \in Wiring[fixture].handlers
            \ (Wiring[fixture].internal \cup Wiring[fixture].fromr)
    /\ Target[h] \in Reactives \ Sources
    /\ madeAt[Target[h]] # -1
    /\ subscribedAt[h] = -1
    /\ LET H == SubscribeInternal(Heap, Target[h], UserH(h), TRUE)
       IN /\ Commit(H)
          /\ unsubOf' = [unsubOf EXCEPT ![h] = H.ret]
    /\ subscribedAt' = [subscribedAt EXCEPT ![h] = Len(emits)]
    /\ subOrder' = Append(subOrder, h)
    /\ UNCHANGED <<obs, fixture, emits, madeAt, escaped, frozen, rfrozen, stepSeen,
                   stepObs>>

\* reactive.subscribeInternal(handler, false), the privileged registration
ReactiveSubscribeInternal(h) ==
    /\ h \in Wiring[fixture].internal
    /\ madeAt[Target[h]] # -1
    /\ subscribedAt[h] = -1
    /\ LET H == SubscribeInternal(Heap, Target[h], UserH(h), FALSE)
       IN /\ Commit(H)
          /\ unsubOf' = [unsubOf EXCEPT ![h] = H.ret]
    /\ subscribedAt' = [subscribedAt EXCEPT ![h] = Len(emits)]
    /\ subOrder' = Append(subOrder, h)
    /\ UNCHANGED <<obs, fixture, emits, madeAt, escaped, frozen, rfrozen, stepSeen,
                   stepObs>>

\* The unsubscribe function subscribe returned for h, called by user code
CallUnsubscribe(h) ==
    /\ h \in Wiring[fixture].unsubs
    /\ subscribedAt[h] # -1
    /\ frozen[h].unsub = -1
    /\ Commit(Unsubscribe(Heap, unsubOf[h]))
    /\ frozen' = [frozen EXCEPT ![h].unsub = Len(log[h])]
    /\ released' = [released EXCEPT ![h] = Append(@, "unsubscribe")]
    /\ UNCHANGED <<future, resolver, forceObs, emitObs, swGone, againObs, reg>>
    /\ UNCHANGED <<fixture, emits, subscribedAt, madeAt, escaped, unsubOf,
                   rfrozen, subOrder, stepSeen, stepObs>>

\* event.cleanup() by user code
Cleanup(e) ==
    /\ e \in Wiring[fixture].cleans
    /\ e = "sw" => swCurrent # "none"
    /\ LET H == CallCleanup(Heap, e)
       IN /\ Commit(H)
          /\ swGone' =
               IF e = "sw"
               THEN [done |-> TRUE, cur |-> swCurrent,
                     source |-> H.cleaned[swCurrent] > cleaned[swCurrent],
                     logs |-> [h \in Handlers |-> Len(log[h])]]
               ELSE swGone
    /\ released' =
         [h \in Handlers |->
            IF subscribedAt[h] # -1 /\ Target[h] = e
               /\ \A i \in 1..Len(released[h]) : released[h][i] # "cleanup"
            THEN Append(released[h], "cleanup")
            ELSE released[h]]
    /\ LET r == stepperReactive[e]
       IN /\ frozen' =
               [h \in Handlers |->
                  LET f1 == Release("cleanup", LAMBDA t : t = e \/ t = r)[h]
                  IN IF subscribedAt[h] # -1 /\ Target[h] \in Streams
                        /\ e \in Upstreams(Target[h]) /\ f1.upstream = -1
                     THEN [f1 EXCEPT !.upstream = Len(log[h])]
                     ELSE f1]
          /\ rfrozen' = IF r # "none" /\ rfrozen[r] = Undefined
                        THEN [rfrozen EXCEPT ![r] = rx[r].cur]
                        ELSE rfrozen
    /\ stepSeen' = [stepSeen EXCEPT ![e] = NotSeen]
    /\ UNCHANGED <<future, resolver, forceObs, emitObs, againObs, reg, fixture,
                   emits, subscribedAt, madeAt, escaped, unsubOf, subOrder,
                   stepObs>>

\* reactive.cleanup() by user code
CleanupReactive(r) ==
    /\ r \in Wiring[fixture].rcleans
    /\ madeAt[r] # -1
    /\ rfrozen[r] = Undefined
    /\ Commit(ReactiveCleanup(Heap, r))
    /\ rfrozen' = [rfrozen EXCEPT ![r] = rx[r].cur]
    /\ frozen' = Release("cleanup", LAMBDA t : t = r)
    /\ UNCHANGED <<obs, fixture, emits, subscribedAt, madeAt, escaped, unsubOf,
                   subOrder, stepSeen, stepObs>>

\* event.stepper(seed) by user code
Stepper(e, seed) ==
    /\ e \in Wiring[fixture].steppers
    /\ LET hit == stepperReactive[e] # "none" /\ stepperInitialValue[e] = seed
           r == NextStepper
       IN /\ hit \/ r # "none"
          /\ LET H == StepperCall(Heap, e, seed, r)
             IN /\ Commit(H)
                /\ madeAt' = IF hit THEN madeAt
                             ELSE [madeAt EXCEPT ![r] = Len(emits)]
                /\ stepSeen' = [stepSeen EXCEPT
                                    ![e] = [seed |-> seed, ret |-> H.ret,
                                            emitted |-> FALSE]]
                /\ LET repeat == stepSeen[e].seed = seed
                   IN stepObs' =
                        [repeat |-> repeat,
                         cached |-> repeat /\ stepSeen[e].ret = H.ret
                                           /\ H.nextId = nextId,
                         emitted |-> repeat /\ stepSeen[e].emitted]
    /\ UNCHANGED <<obs, fixture, emits, subscribedAt, escaped, unsubOf, frozen,
                   rfrozen, subOrder>>

\* x.ap(rf) by user code
Ap(r) ==
    /\ r \in Wiring[fixture].aps
    /\ madeAt[r] = -1
    /\ madeAt[ApDef[r].x] # -1 /\ madeAt[ApDef[r].rf] # -1
    /\ Commit(ApCreate(Heap, r))
    /\ madeAt' = [madeAt EXCEPT ![r] = Len(emits)]
    /\ UNCHANGED <<obs, fixture, emits, subscribedAt, escaped, unsubOf, frozen,
                   rfrozen, subOrder, stepSeen, stepObs>>

\* Event.switch(a, sel) by user code
Switch ==
    /\ Wiring[fixture].switch
    /\ swCurrent = "none"
    /\ Commit(SwitchCreate(Heap))
    /\ madeAt' = [madeAt EXCEPT !["sw"] = Len(emits)]
    /\ UNCHANGED <<obs, fixture, emits, subscribedAt, escaped, unsubOf,
                   frozen, rfrozen, subOrder, stepSeen, stepObs>>

\* The unsubscribe function subscribe returned for h, called once more
CallUnsubscribeAgain(h) ==
    /\ h \in Wiring[fixture].unsubs
    /\ frozen[h].unsub # -1
    /\ againObs = NoAgain
    /\ LET H == Unsubscribe(Heap, unsubOf[h])
       IN /\ Commit(H)
          /\ againObs' = [h |-> h, threw |-> H.exc,
                          cleaned |-> H.cleaned # cleaned,
                          same |-> /\ H.active = active
                                   /\ H.rx = rx
                                   /\ H.onFirstEmit = onFirstEmit]
    /\ UNCHANGED <<future, resolver, forceObs, emitObs, swGone, released,
                   reg, fixture, emits, subscribedAt, madeAt, escaped, unsubOf,
                   frozen, rfrozen, subOrder, stepSeen, stepObs>>

\* p.chain(f) by user code, on reactives that fold returned
ChainReactive(r) ==
    /\ r \in Wiring[fixture].chains
    /\ madeAt[r] = -1
    /\ \A q \in {ChainDef[r].p, ChainDef[r].zero, ChainDef[r].other} :
           madeAt[q] # -1
    /\ Commit(ChainCreate(Heap, r))
    /\ madeAt' = [madeAt EXCEPT ![r] = Len(emits)]
    /\ UNCHANGED <<obs, fixture, emits, subscribedAt, escaped, unsubOf, frozen,
                   rfrozen, subOrder, stepSeen, stepObs>>

\* event.emit(value) by user code, the method of EventImpl
EmitOn(e, value) ==
    /\ e \in Wiring[fixture].emitsOn
    /\ LET H == EventEmit(Heap, e, value)
       IN /\ Commit(H)
          /\ emitObs' = [done |-> TRUE, threw |-> H.exc,
                         same |-> H.log = log /\ H.rx = rx]
    /\ UNCHANGED <<future, resolver, forceObs, swGone, againObs, released, reg,
                   fixture, emits, subscribedAt, madeAt, escaped, unsubOf, frozen,
                   rfrozen, subOrder, stepSeen, stepObs>>

\* What user code and the environment leave alone when they deal with the
\* Future only
FutureOnly ==
    UNCHANGED <<fixture, reactive, initialValue, onFirstEmit, rx, acc, zipst,
                inner, nextId, log, calls, emits, subscribedAt, madeAt,
                escaped, active, stepperReactive, stepperInitialValue, rclean,
                swCurrent, swSub, order, unsubOf, frozen, rfrozen, subOrder,
                stepSeen, stepObs, promotions, cleaned, swEvents, chainst,
                chainCalls, emitObs, swGone, againObs, released, reg>>

\* future.force() by user code
CallForce ==
    /\ Wiring[fixture].forces
    /\ LET f == Force(future, resolver)
       IN /\ future' = f.fut
          /\ forceObs' = [op |-> "force", res |-> resolver,
                          threw |-> f.threw, ret |-> f.ret,
                          failed |-> forceObs.failed \/ f.threw]
    /\ UNCHANGED resolver
    /\ FutureOnly

\* future.tryForce() by user code
CallTryForce ==
    /\ Wiring[fixture].forces
    /\ LET f == TryForce(future, resolver)
       IN /\ future' = f.fut
          /\ forceObs' = [op |-> "tryForce", res |-> resolver,
                          threw |-> f.threw, ret |-> f.ret,
                          failed |-> forceObs.failed]
    /\ UNCHANGED resolver
    /\ FutureOnly

\* The resolver starts to yield a value
ResolverYields(v) ==
    /\ Wiring[fixture].forces
    /\ resolver = Null
    /\ resolver' = v
    /\ UNCHANGED <<future, forceObs>>
    /\ FutureOnly

\* emit(value) by user code
Emit(s, value) ==
    /\ <<s, value>> \in Wiring[fixture].emits
    /\ Len(emits) < MaxEmits
    /\ LET H == EmitValue([Heap EXCEPT !.order = <<>>], s, value)
       IN /\ Commit(H)
          /\ escaped' = (escaped \/ H.exc)
    /\ emits' = Append(emits, <<s, value>>)
    /\ stepSeen' = [e \in Streams |->
                      [stepSeen[e] EXCEPT !.emitted = stepSeen[e].ret # "none"]]
    /\ UNCHANGED <<obs, fixture, subscribedAt, madeAt, unsubOf, frozen, rfrozen,
                   subOrder, stepObs>>

Next ==
    \/ \E h \in Handlers : Subscribe(h)
    \/ \E r \in Folds : Fold(r)
    \/ \E h \in Handlers : ReactiveSubscribe(h)
    \/ \E s \in Sources, value \in Values : Emit(s, value)

NextRelease ==
    \/ \E h \in Handlers : Subscribe(h)
    \/ \E r \in Folds : Fold(r)
    \/ \E h \in Handlers : ReactiveSubscribe(h)
    \/ \E h \in Handlers : ReactiveSubscribeInternal(h)
    \/ \E h \in Handlers : CallUnsubscribe(h)
    \/ \E e \in Streams : Cleanup(e)
    \/ \E r \in Reactives : CleanupReactive(r)
    \/ \E e \in Streams, seed \in Seeds : Stepper(e, seed)
    \/ \E r \in Aps : Ap(r)
    \/ Switch
    \/ \E s \in Sources, value \in Values : Emit(s, value)

NextDynamic ==
    \/ \E h \in Handlers : Subscribe(h)
    \/ \E r \in Folds : Fold(r)
    \/ \E h \in Handlers : CallUnsubscribe(h)
    \/ \E h \in Handlers : CallUnsubscribeAgain(h)
    \/ \E e \in Streams : Cleanup(e)
    \/ \E r \in Aps : Ap(r)
    \/ \E r \in Chains : ChainReactive(r)
    \/ Switch
    \/ \E e \in Streams, value \in Values : EmitOn(e, value)
    \/ CallForce
    \/ CallTryForce
    \/ \E v \in 1..MaxVal : ResolverYields(v)
    \/ \E s \in Sources, value \in Values : Emit(s, value)

\* ------------------------------------------------------------------------
\* The source event d of the derivation (an Event that keeps its subscribers
\* in an array and splices a handler out to unsubscribe it).  D holds the
\* array and the logs during an emit call.
\* ------------------------------------------------------------------------
\* array.splice(array.indexOf(h), 1), if h is in the array
RECURSIVE RemoveFirst(_, _)
RemoveFirst(seq, h) ==
    IF seq = <<>> THEN <<>>
    ELSE IF Head(seq) = h THEN Tail(seq)
    ELSE <<Head(seq)>> \o RemoveFirst(Tail(seq), h)

\* The user handler h of d invoked with v: it records the value, and hD1
\* then calls its unsubscribe function
DerivedCall(D, h, v) ==
    [D EXCEPT !.log[h] = Append(@, v),
              !.subs = IF UnregistersItself(h) THEN RemoveFirst(@, h) ELSE @]

\* this.subscribers.forEach((sub) => { try { sub(value) } catch ... }):
\* forEach visits the indices below the length the array had at the start
\* and skips those the array no longer has
RECURSIVE DerivedForEach(_, _, _, _)
DerivedForEach(D, k, n, v) ==
    IF k > n \/ k > Len(D.subs) THEN D
    ELSE DerivedForEach(DerivedCall(D, D.subs[k], v), k + 1, n, v)

\* What the calls on d leave alone
DerivedOnly ==
    UNCHANGED <<fixture, reactive, initialValue, onFirstEmit, rx, acc, zipst,
                inner, nextId, calls, madeAt, escaped, active,
                stepperReactive, stepperInitialValue, rclean, swCurrent,
                swSub, order, frozen, rfrozen, stepSeen, stepObs, promotions,
                cleaned, swEvents, chainst, chainCalls, future, resolver,
                forceObs, emitObs, swGone, againObs, released, changeEvent,
                twice>>

\* d.subscribe(handler) by user code: this.subscribers.push(handler)
DerivedSubscribe(h) ==
    /\ h \in Wiring[fixture].handlers
    /\ Target[h] = "d"
    /\ subscribedAt[h] = -1
    /\ dsubs' = Append(dsubs, h)
    /\ subscribedAt' = [subscribedAt EXCEPT ![h] = Len(emits)]
    /\ subOrder' = Append(subOrder, h)
    /\ UNCHANGED <<log, emits, unsubOf>>
    /\ DerivedOnly

\* d.emit(value) by user code
DerivedEmit(value) ==
    /\ <<"d", value>> \in Wiring[fixture].emits
    /\ Len(emits) < MaxEmits
    /\ LET D == DerivedForEach([subs |-> dsubs, log |-> log], 1, Len(dsubs),
                               value)
       IN dsubs' = D.subs /\ log' = D.log
    /\ emits' = Append(emits, <<"d", value>>)
    /\ UNCHANGED <<subscribedAt, subOrder, unsubOf>>
    /\ DerivedOnly

\* Future.fromReactive(reactive).run(handler) by user code
RunFromReactive(h) ==
    /\ h \in Wiring[fixture].fromr
    /\ madeAt[Target[h]] # -1
    /\ subscribedAt[h] = -1
    /\ LET H == FromReactive(Heap, Target[h], UserH(h))
       IN /\ Commit(H)
          /\ unsubOf' = [unsubOf EXCEPT ![h] = H.ret]
    /\ subscribedAt' = [subscribedAt EXCEPT ![h] = Len(emits)]
    /\ subOrder' = Append(subOrder, h)
    /\ UNCHANGED <<obs, fixture, emits, madeAt, escaped, frozen, rfrozen,
                   stepSeen, stepObs>>

\* What the calls that only touch the registration bookkeeping leave alone
RegisterOnly ==
    UNCHANGED <<fixture, emits, subscribedAt, escaped, unsubOf, frozen,
                rfrozen, subOrder, stepSeen, stepObs, future, resolver,
                forceObs, emitObs, swGone, againObs, released, dsubs>>

\* reactive.changes() by user code: the first call sets changeEvent
Changes(r) ==
    /\ r \in Wiring[fixture].changes
    /\ madeAt[r] # -1
    /\ r \notin changeEvent
    /\ changeEvent' = changeEvent \cup {r}
    /\ Commit(Heap)
    /\ UNCHANGED <<madeAt, twice>>
    /\ RegisterOnly

\* parent.map(f) by user code
MapReactive(m) ==
    /\ m \in Wiring[fixture].maps
    /\ madeAt[m] = -1
    /\ madeAt[MapDef[m].parent] # -1
    /\ Commit(RMapCreate(Heap, m, MapDef[m].parent \in changeEvent))
    /\ madeAt' = [madeAt EXCEPT ![m] = Len(emits)]
    /\ UNCHANGED <<changeEvent, twice>>
    /\ RegisterOnly

\* reactive.subscribe(handler) by user code, with a handler function it
\* has subscribed to the same reactive before
ReactiveSubscribeTwice(h) ==
    /\ h \in Wiring[fixture].twice
    /\ subscribedAt[h] # -1
    /\ h \notin twice
    /\ frozen[h].unsub = -1
    /\ Commit(SubscribeInternal(Heap, Target[h], UserH(h), TRUE))
    /\ twice' = twice \cup {h}
    /\ UNCHANGED <<madeAt, changeEvent>>
    /\ RegisterOnly

NextRegister ==
    \/ \E h \in Handlers : Subscribe(h)
    \/ \E r \in Folds : Fold(r)
    \/ \E h \in Handlers : ReactiveSubscribe(h)
    \/ \E h \in Handlers : ReactiveSubscribeTwice(h)
    \/ \E h \in Handlers : RunFromReactive(h)
    \/ \E h \in Handlers : CallUnsubscribe(h)
    \/ Switch
    \/ \E r \in Folds : Changes(r)
    \/ \E m \in Maps : MapReactive(m)
    \/ \E h \in Handlers : DerivedSubscribe(h)
    \/ \E value \in Values : DerivedEmit(value)
    \/ \E s \in Sources, value \in Values : Emit(s, value)

Spec == Init /\ [][Next]_vars

SpecRegister == InitRegister /\ [][NextRegister]_vars

SpecDynamic == InitDynamic /\ [][NextDynamic]_vars

SpecRelease == InitRelease /\ [][NextRelease]_vars

\* ------------------------------------------------------------------------
\* Observations used by the properties
\* ------------------------------------------------------------------------
RECURSIVE EmitValsOf(_, _)
EmitValsOf(es, s) ==
    IF es = <<>> THEN <<>>
    ELSE (IF Head(es)[1] = s THEN <<Head(es)[2]>> ELSE <<>>)
         \o EmitValsOf(Tail(es), s)

\* The values emitted on source s, in order
EmitVals(s) == EmitValsOf(emits, s)

\* The values emitted on any source, in the order of the emit calls
AllVals == [i \in 1..Len(emits) |-> emits[i][2]]

\* seq without its first n elements
After(seq, n) == SubSeq(seq, n + 1, Len(seq))

MapSeq(f, seq) == [i \in 1..Len(seq) |-> ApplyFn(f, seq[i])]

Args(cs) == [i \in 1..Len(cs) |-> cs[i].arg]

\* The arguments the mapping function was invoked with on behalf of user
\* handler h
MapArgsFor(h) ==
    Args(SelectSeq(calls, LAMBDA c : c.by.k = "map" /\ c.by.next = UserH(h)))

\* The arguments the folding function of r was invoked with
FoldArgs(r) == Args(SelectSeq(calls, LAMBDA c : c.by = FoldH(r)))

\* The successive accumulators of a left fold that skips the elements the
\* function throws on
RECURSIVE RunFold(_, _, _)
RunFold(f, a, seq) ==
    IF seq = <<>> THEN <<>>
    ELSE IF FoldThrows(f, a, Head(seq)) THEN RunFold(f, a, Tail(seq))
    ELSE <<ApplyFold(f, a, Head(seq))>>
         \o RunFold(f, ApplyFold(f, a, Head(seq)), Tail(seq))

FoldL(f, a, seq) ==
    LET run == RunFold(f, a, seq)
    IN IF run = <<>> THEN a ELSE run[Len(run)]

\* User handler h subscribed before the first emit call and its subscription
\* was never released
Early(h) == subscribedAt[h] = 0 /\ frozen[h] = NotFrozen

\* Reactive r was created before the first emit call and never cleaned up
EarlyReactive(r) == madeAt[r] = 0 /\ rfrozen[r] = Undefined

\* ------------------------------------------------------------------------
\* Properties
\* ------------------------------------------------------------------------

\* C1 (functor identity): handlers subscribed before the first emit to s and
\* to s.map(x => x) have received the same sequence of values.
C1_FunctorIdentity ==
    (Early("hS") /\ Early("hId")) => log["hId"] = log["hS"]

C1_Witness ==
    /\ Early("hS") /\ Early("hId")
    /\ log["hId"] = <<1, Null, 2>>

\* C2 (functor composition): handlers subscribed before the first emit to
\* s.map(f).map(g) and to s.map(x => g(f(x))) have received the same values.
C2_FunctorComposition ==
    (subscribedAt["hFG"] = 0 /\ subscribedAt["hGF"] = 0)
        => log["hFG"] = log["hGF"]

C2_Witness ==
    /\ subscribedAt["hFG"] = 0 /\ subscribedAt["hGF"] = 0
    /\ log["hFG"] = <<7, 9, 5>>

NonThrowing(f, seq) == SelectSeq(seq, LAMBDA x : ~FnThrows(f, x))

\* C4 (map fault isolation): for every subscription of s.map(T), the handler
\* has been invoked exactly with T(w) for the arguments w on which T did not
\* throw, the arguments T was invoked with are all the emissions from the
\* first one that reached it on (a throw ends nothing), and no emit call
\* has thrown.
C4_MapFaultIsolation ==
    fixture = "mapping" =>
        /\ ~escaped
        /\ \A h \in {"hT1", "hT2"} :
              LET args == MapArgsFor(h)
                  vals == EmitVals("a")
              IN /\ log[h] = MapSeq("T", NonThrowing("T", args))
                 /\ args = After(vals, Len(vals) - Len(args))

C4_Witness ==
    /\ emits = << <<"a", 1>>, <<"a", BadVal>>, <<"a", 2>> >>
    /\ log["hT1"] = <<2, 4>>
    /\ MapArgsFor("hT1") = <<1, BadVal, 2>>

\* C5 (fold fault isolation): the accumulator and r.get() equal the left fold
\* over the occurrences on which f did not throw (a throw skips, it does not
\* reset), the occurrences reaching f are all the emissions from the first
\* that reached it on, a subscriber of r has seen the value at subscription
\* followed by one value per non-throwing occurrence, and no emit call has
\* thrown.
C5_FoldFaultIsolation ==
    (fixture = "foldthrow" /\ madeAt["r_tsum"] # -1) =>
        LET args == FoldArgs("r_tsum")
            vals == EmitVals("a")
            k == Len(vals) - Len(args)
            m == subscribedAt["hRT"]
            before == IF m > k THEN SubSeq(vals, k + 1, m) ELSE <<>>
            after == After(vals, IF m > k THEN m ELSE k)
            base == FoldL("addT", 0, before)
        IN /\ ~escaped
           /\ args = After(vals, k)
           /\ acc["r_tsum"] = FoldL("addT", 0, args)
           /\ rx["r_tsum"].cur = acc["r_tsum"]
           /\ m # -1 => log["hRT"] = <<base>> \o RunFold("addT", base, after)

C5_Witness ==
    /\ emits = << <<"a", 2>>, <<"a", BadVal>>, <<"a", 1>> >>
    /\ FoldArgs("r_tsum") = <<2, BadVal, 1>>
    /\ rx["r_tsum"].cur = 3
    /\ log["hRT"] = <<0, 2, 3>>

\* The values of seq predicate p accepts without throwing
Accepted(p, seq) ==
    SelectSeq(seq, LAMBDA x : ~PredThrows(p, x) /\ PredHolds(p, x))

\* C6 (filter): a handler subscribed to s.filter(P) has received exactly the
\* emissions made since it subscribed that P accepts, in order, and no emit
\* call has thrown.
C6_FilterSubsequence ==
    (fixture = "filter" /\ subscribedAt["hP"] # -1) =>
        /\ ~escaped
        /\ log["hP"] = Accepted("P", After(EmitVals("a"), subscribedAt["hP"]))

\* C6 for a handler subscribed before the first emission
C6_FilterEarly ==
    (fixture = "filter" /\ subscribedAt["hP"] = 0) =>
        /\ ~escaped
        /\ log["hP"] = Accepted("P", EmitVals("a"))

C8_ZipNoEarlyPair ==
    \A h \in {"hZ", "hZ2"} :
        log[h] # <<>> => (EmitVals("a") # <<>> /\ EmitVals("b") # <<>>)

C8_Witness ==
    /\ Early("hZ")
    /\ Len(EmitVals("a")) = MaxEmits
    /\ log["hZ"] = <<>>

\* The pairs zip owes for a sequence of emit calls: from the moment both
\* sides have a value, one pair per occurrence, of the latest values
RECURSIVE ZipPairs(_, _, _, _, _)
ZipPairs(es, hasA, la, hasB, lb) ==
    IF es = <<>> THEN <<>>
    ELSE LET e == Head(es)
             hasA2 == hasA \/ e[1] = "a"
             hasB2 == hasB \/ e[1] = "b"
             la2 == IF e[1] = "a" THEN e[2] ELSE la
             lb2 == IF e[1] = "b" THEN e[2] ELSE lb
         IN (IF hasA2 /\ hasB2 THEN << <<la2, lb2>> >> ELSE <<>>)
            \o ZipPairs(Tail(es), hasA2, la2, hasB2, lb2)

\* C9 (zip re-emits on every occurrence): a handler subscribed to a.zip(b)
\* before any emission has received, from the moment both sides have a
\* value, one pair per occurrence made of the latest value of each side,
\* null included.
C9_ZipEveryOccurrence ==
    (fixture = "zip" /\ subscribedAt["hZ"] = 0)
        => log["hZ"] = ZipPairs(emits, FALSE, Null, FALSE, Null)

\* C10 (map delivery): every subscribed handler of s.map(T) has been invoked
\* once with T(v) for every value v emitted since it subscribed (T not
\* throwing on it), T was invoked once per subscribed handler and emission,
\* and never on behalf of no handler.
C10_MapDelivery ==
    fixture = "mapping" =>
        /\ \A h \in {"hT1", "hT2"} :
              subscribedAt[h] # -1 =>
                 LET vals == After(EmitVals("a"), subscribedAt[h])
                 IN /\ MapArgsFor(h) = vals
                    /\ log[h] = MapSeq("T", NonThrowing("T", vals))
        /\ Len(calls) = Len(MapArgsFor("hT1")) + Len(MapArgsFor("hT2"))

\* C10 for handlers subscribed before the first emission
C10_MapDeliveryEarly ==
    fixture = "mapping" =>
        /\ \A h \in {"hT1", "hT2"} :
              subscribedAt[h] = 0 =>
                 /\ MapArgsFor(h) = EmitVals("a")
                 /\ log[h] = MapSeq("T", NonThrowing("T", EmitVals("a")))
        /\ Len(calls) = Len(MapArgsFor("hT1")) + Len(MapArgsFor("hT2"))

\* ------------------------------------------------------------------------
\* Release of subscriptions, steppers and switch (SpecRelease)
\* ------------------------------------------------------------------------

\* The user handler a closure ends in, "none" if it ends in a reactive
RECURSIVE Root(_)
Root(hd) ==
    IF hd.k = "user" THEN hd.h
    ELSE IF hd.k \in {"map", "filter", "zipA", "zipB", "chain"}
    THEN Root(hd.next)
    ELSE "none"

\* The reactive a closure feeds, "none" if it ends in a user handler
RECURSIVE Fed(_)
Fed(hd) ==
    IF hd.k \in {"fold", "step", "apVal", "apFn"} THEN hd.r
    ELSE IF hd.k \in {"map", "filter", "zipA", "zipB"} THEN Fed(hd.next)
    ELSE "none"

\* Every closure a source event or a reactive holds: its subscribers and, for
\* a source event, the handlers waiting in its first-emit queue
Held(r) ==
    {rx[r].subs[i] : i \in 1..Len(rx[r].subs)}
        \cup (IF r \in Sources
              THEN {onFirstEmit[r][i].h : i \in 1..Len(onFirstEmit[r])}
              ELSE {})

HeldAnywhere == UNION {Held(r) : r \in Reactives}

SubPos(h) == CHOOSE i \in 1..Len(subOrder) : subOrder[i] = h

\* C12 (registration order): within one emit call, the handlers subscribed
\* to the same event or reactive are invoked in the order they subscribed
\* (a reactive updated twice by one emit call notifies them twice, in that
\* order each time).
C12_RegistrationOrder ==
    \A i, j \in 1..Len(order) :
        (i < j /\ Target[order[i]] = Target[order[j]])
            => SubPos(order[i]) <= SubPos(order[j])

C12_Witness ==
    /\ fixture = "unsub"
    /\ Len(emits) = 2
    /\ order = <<"hS2", "hS", "hId">>
    /\ log["hS2"] = <<1, 2>> /\ log["hS"] = <<1, 2>>

\* The last element of a non-empty sequence
Last(seq) == seq[Len(seq)]

C13_LaterEmissions ==
    [][(fixture = "subthrow" /\ reactive["a"] /\ emits' # emits)
         => /\ escaped' = escaped
            /\ rx'["a"].cur = Last(EmitVals("a")')
            /\ \A h \in {"hS", "hX"} :
                  (\E i \in 1..Len(rx["a"].subs) : rx["a"].subs[i] = UserH(h))
                      => log'[h] = Append(log[h], Last(emits')[2])
      ]_vars

\* C14 (immediate delivery on a reactive): a handler registered by
\* subscribe has received the value the reactive held at that moment and
\* then one value per later update; one registered by
\* subscribeInternal(handler, false) has received the later updates only.
\* The updates of r_sum are the occurrences its folding closure received.
C14_ImmediateDelivery ==
    (fixture = "rsub" /\ rfrozen["r_sum"] = Undefined) =>
        LET vals == EmitVals("a")
            args == FoldArgs("r_sum")
            k == Len(vals) - Len(args)
            Base(m) == FoldL("add", 0, IF m > k THEN SubSeq(vals, k + 1, m)
                                       ELSE <<>>)
            Later(m) == RunFold("add", Base(m),
                                After(vals, IF m > k THEN m ELSE k))
        IN /\ args = After(vals, k)
           /\ subscribedAt["hR"] # -1 =>
                 log["hR"] = <<Base(subscribedAt["hR"])>>
                                 \o Later(subscribedAt["hR"])
           /\ subscribedAt["hRI"] # -1 =>
                 log["hRI"] = Later(subscribedAt["hRI"])

C14_Witness ==
    /\ fixture = "rsub"
    /\ emits = << <<"a", 1>>, <<"a", 2>>, <<"a", 1>> >>
    /\ subscribedAt["hR"] = 1 /\ log["hR"] = <<1, 3, 4>>
    /\ subscribedAt["hRI"] = 1 /\ log["hRI"] = <<3, 4>>

\* C15 (stepper cache): a stepper call that repeats the seed of the call
\* before it on the same event, with no cleanup of the event in between,
\* returns the same reactive and runs no future.
C15_StepperCache == stepObs.repeat => stepObs.cached

C15_Witness ==
    /\ stepObs.repeat /\ stepObs.cached /\ stepObs.emitted
    /\ stepSeen["a"].ret = "st2"
    /\ rx["st2"].cur = 2

\* C16 (stepper tracks the event): the reactive stepper returned last holds
\* the latest occurrence since it was made, or its seed if there was none.
C16_StepperTracks ==
    LET r == stepperReactive["a"]
    IN (fixture = "stepper" /\ r # "none" /\ rfrozen[r] = Undefined) =>
          LET since == After(EmitVals("a"), madeAt[r])
          IN rx[r].cur = IF since = <<>> THEN stepperInitialValue["a"]
                         ELSE Last(since)

\* C16 for a stepper made before the first emit call
C16_StepperEarly ==
    LET r == stepperReactive["a"]
    IN (fixture = "stepper" /\ r # "none" /\ EarlyReactive(r)) =>
          rx[r].cur = IF emits = <<>> THEN stepperInitialValue["a"]
                      ELSE Last(EmitVals("a"))

\* The events built from others by map, filter, concat or zip
Derived == {e \in Streams : StreamDef[e].k # "source"}

\* C17 (cleanup of a derived event releases upstream): a handler that was
\* subscribed to a derived event when that event was cleaned up is never
\* invoked again, and no source event holds a closure ending in it, neither
\* among its subscribers nor in its first-emit queue.
C17_DownstreamCleanup ==
    \A h \in Handlers :
        (frozen[h].cleanup # -1 /\ Target[h] \in Derived) =>
            /\ Len(log[h]) = frozen[h].cleanup
            /\ \A c \in HeldAnywhere : Root(c) # h

C17_Witness ==
    /\ fixture = "cleanup"
    /\ Len(emits) = MaxEmits
    /\ subscribedAt["hFG"] = 0 /\ frozen["hFG"] = [NotFrozen EXCEPT !.cleanup = 1]
    /\ log["hFG"] = <<7>>
    /\ subscribedAt["hP"] = 1 /\ frozen["hP"].cleanup = 0

\* C18 (cleanup of an upstream event ends the derived ones): a handler that
\* was subscribed to an event derived from u when u was cleaned up is never
\* invoked again.
C18_UpstreamCleanup ==
    \A h \in Handlers :
        frozen[h].upstream # -1 => Len(log[h]) = frozen[h].upstream

\* C18 for the events derived by filter, whose closures subscribe through
\* EventImpl.subscribe of the upstream event
C18_UpstreamCleanupFilter ==
    frozen["hP"].upstream # -1 => Len(log["hP"]) = frozen["hP"].upstream

\* C19 (cleanup of a reactive is terminal): once a reactive made by fold,
\* stepper or ap has been cleaned up, its value never changes, the handlers
\* that were subscribed to it are never invoked again, and no source event
\* or reactive holds a closure that feeds it.
C19_ReactiveCleanup ==
    \A r \in Reactives \ Sources :
        rfrozen[r] # Undefined =>
            /\ rx[r].cur = rfrozen[r]
            /\ \A c \in HeldAnywhere : Fed(c) # r
            /\ \A h \in Handlers :
                  (Target[h] = r /\ frozen[h].cleanup # -1)
                      => Len(log[h]) = frozen[h].cleanup

C19_Witness ==
    /\ fixture = "rsub"
    /\ emits = << <<"a", 1>>, <<"a", 2>>, <<"a", 2>> >>
    /\ madeAt["r_sum"] = 0 /\ rfrozen["r_sum"] = 1 /\ rx["r_sum"].cur = 1
    /\ subscribedAt["hR"] = 0 /\ log["hR"] = <<0, 1>>

\* What switch owes its result for a sequence of emit calls: the occurrences
\* of the event selected at the time, cur being the one selected first
RECURSIVE SwitchOut(_, _)
SwitchOut(es, cur) ==
    IF es = <<>> THEN <<>>
    ELSE LET e == Head(es)
         IN IF e[1] = "sel" THEN SwitchOut(Tail(es), SelStream[e[2]])
            ELSE (IF e[1] = cur THEN <<e[2]>> ELSE <<>>)
                 \o SwitchOut(Tail(es), cur)

\* C20 (switch forwards the current source): a handler subscribed to the
\* result of switch before the first emit call has received exactly the
\* occurrences of the event selected at the time, once each and in order.
C20_SwitchForwards ==
    (fixture = "switch" /\ madeAt["sw"] = 0 /\ Early("hW"))
        => log["hW"] = SwitchOut(emits, "a")

\* seq is sub with some elements left out
RECURSIVE IsSubSeq(_, _)
IsSubSeq(sub, seq) ==
    IF sub = <<>> THEN TRUE
    ELSE IF seq = <<>> THEN FALSE
    ELSE IF Head(sub) = Head(seq) THEN IsSubSeq(Tail(sub), Tail(seq))
    ELSE IsSubSeq(sub, Tail(seq))

\* C20, the half that holds: nothing but occurrences of the event selected
\* at the time reaches the handler, none twice and none out of order
C20_SwitchOnlyCurrent ==
    (fixture = "switch" /\ madeAt["sw"] = 0 /\ Early("hW"))
        => IsSubSeq(log["hW"], SwitchOut(emits, "a"))

\* ------------------------------------------------------------------------
\* Dynamic re-subscription, misuse, re-entrant emission and promotion
\* (SpecDynamic)
\* ------------------------------------------------------------------------

\* No source event holds the emit function of the result of switch or the
\* closure switch subscribed to the event of events
SwitchReleased == HeldAnywhere \cap {EmitH("sw"), SwitchH} = {}

\* C21 (switch cleanup): cleanup() on the result of switch invokes the
\* cleanup of the event that was current at the call, and afterwards neither
\* the emit function of the result nor the switching closure is subscribed
\* anywhere, so no occurrence reaches the result or changes the current
\* event.
C21_SwitchCleanup ==
    swGone.done =>
        /\ swGone.source
        /\ SwitchReleased
        /\ swCurrent = swGone.cur

\* The part of C21 that does not depend on the cleanup of the current event:
\* after cleanup() both subscriptions of switch are released for good
C21_SwitchQuiet ==
    swGone.done =>
        /\ SwitchReleased
        /\ swCurrent = swGone.cur
        /\ Len(log["hW"]) = swGone.logs["hW"]

\* The teardown of the subscription of h was made in order and once:
\* nothing yet, or unsubscribe, or unsubscribe followed by cleanup
InOrder(h) ==
    /\ released[h] \in {<<>>, <<"unsubscribe">>, <<"unsubscribe", "cleanup">>}
    /\ againObs.h # h

\* C22 (dynamic chain cleanup count): for c = outer.chain(f) with the one
\* subscriber hCh, every inner event f returned has had its cleanup invoked
\* exactly once, except the current one before the teardown, whose cleanup
\* was not invoked yet; the teardown is unsubscribe, then c.cleanup().
C22_ChainCleanupCount ==
    InOrder("hCh") =>
        \A i \in 1..chainCalls :
            cleaned[InnerStream[i]] =
                IF i = chainCalls /\ released["hCh"] = <<>> THEN 0 ELSE 1

C22_Witness ==
    /\ released["hCh"] = <<"unsubscribe", "cleanup">>
    /\ againObs.h = "none"
    /\ chainCalls = 2
    /\ \A i \in 1..2 : cleaned[InnerStream[i]] = 1
    /\ log["hCh"] = <<2>>

\* C23 (misuse errors): emit on a derived event throws to the caller and
\* leaves every value and every log as it was.  force on a Future that is
\* pending and whose resolver returns null throws and leaves it pending;
\* tryForce returns null there and does not throw; once the resolver returns
\* a value, force returns that value and the Future is resolved.
C23_MisuseErrors ==
    /\ emitObs.done => emitObs.threw /\ emitObs.same
    /\ future.status = "PENDING" => future.value = Null
    /\ forceObs.op = "force" =>
          /\ forceObs.threw <=> future.status = "PENDING"
          /\ ~forceObs.threw => forceObs.ret = future.value
    /\ forceObs.op = "tryForce" =>
          /\ ~forceObs.threw
          /\ forceObs.ret = Null <=> future.status = "PENDING"
    /\ (forceObs.op # "none" /\ forceObs.res # Null) =>
          /\ future = [status |-> "RESOLVED", value |-> resolver]
          /\ forceObs.ret = resolver

C23_Witness ==
    /\ emitObs.done /\ emitObs.threw
    /\ log["hId"] = <<1>>
    /\ forceObs = [op |-> "force", res |-> 2, threw |-> FALSE, ret |-> 2,
                   failed |-> TRUE]

\* What a handler subscribed with hRe receives when hRe answers every
\* Trigger by emitting Reemitted: a handler registered after hRe is notified
\* of Reemitted before Trigger, hRe itself and the handlers before it after
RECURSIVE Reentered(_, _)
Reentered(vs, after) ==
    IF vs = <<>> THEN <<>>
    ELSE (IF Head(vs) # Trigger THEN <<Head(vs)>>
          ELSE IF after THEN <<Reemitted, Trigger>>
          ELSE <<Trigger, Reemitted>>)
         \o Reentered(Tail(vs), after)

C24_ReentrantLater ==
    (Early("hRe") /\ Early("hS") /\ emits # <<>> /\ emits[1][2] # Trigger) =>
        /\ log["hRe"] = Reentered(EmitVals("a"), FALSE)
        /\ log["hS"] = Reentered(EmitVals("a"), SubPos("hS") > SubPos("hRe"))

\* C25 (unregister is idempotent): a second call of the unsubscribe function
\* subscribe returned does not throw, invokes the cleanup of no inner event,
\* and leaves the active subscriptions, the subscriber lists and the
\* first-emit queues as the first call left them.
C25_UnregisterIdempotent ==
    againObs.h # "none" =>
        /\ ~againObs.threw
        /\ ~againObs.cleaned
        /\ againObs.same

\* C25 without the inner events of chain: the second call neither throws nor
\* changes a subscription
C25_UnregisterSame ==
    againObs.h # "none" => ~againObs.threw /\ againObs.same

\* C26 (applicative consistency): for r = x.ap(rf) not cleaned up, between
\* any two calls of user code r.get() equals rf.get() applied to x.get(),
\* whatever the order of the updates of x and rf.
C26_ApConsistency ==
    \A r \in Aps :
        (madeAt[r] # -1 /\ rfrozen[r] = Undefined) =>
            rx[r].cur = ApplyFnValue(rx[ApDef[r].rf].cur, rx[ApDef[r].x].cur)

C26_Witness ==
    /\ madeAt["r_apb"] = 0
    /\ emits = <<<<"b", 2>>, <<"a", 1>>, <<"b", 1>>>>
    /\ rx["r_sum"].cur = 1 /\ rx["r_fb"].cur = 3
    /\ rx["r_apb"].cur = 4

\* The inner reactive the latest value of the parent of r selects
Selected(r) == ChainFn(ChainDef[r], rx[ChainDef[r].p].cur)

\* C27 (reactive chain keeps no prior inner value): for r = p.chain(f),
\* between any two calls of user code r.get() equals the current value of the
\* inner reactive f selects for the latest value of p, so an update of an
\* inner reactive selected earlier does not show in r.
C27_ChainNoLeak ==
    \A r \in Chains :
        madeAt[r] # -1 => rx[r].cur = rx[Selected(r)].cur

\* C27 while the parent still has the value it had when chain was called
C27_ChainInitialInner ==
    \A r \in Chains :
        (madeAt[r] # -1 /\ rx[ChainDef[r].p].cur = 0) =>
            rx[r].cur = rx[ChainDef[r].zero].cur

\* The values emitted on the source event of user handler h before h
\* subscribed
EmittedBefore(h) == EmitValsOf(SubSeq(emits, 1, subscribedAt[h]), Target[h])

\* C28 (early value): when values were emitted on a source event before any
\* handler subscribed, the first handler to subscribe has received the
\* latest of them first.
C28_EarlyValue ==
    (subOrder # <<>> /\ Target[subOrder[1]] \in Sources
        /\ EmittedBefore(subOrder[1]) # <<>>) =>
        /\ log[subOrder[1]] # <<>>
        /\ Head(log[subOrder[1]]) = Last(EmittedBefore(subOrder[1]))

\* What the code does with an early value: it is kept in initialValue as
\* long as the source event is not promoted
C28_EarlyValueStored ==
    \A s \in Sources :
        (~reactive[s] /\ EmitVals(s) # <<>>) =>
            initialValue[s] = Last(EmitVals(s))

\* C29 (promotion happens at most once): for every source event `reactive`
\* is assigned at most once, and it is bound exactly when it was assigned;
\* so whatever handlers waited in the first-emit queue and whatever
\* subscribe, unsubscribe and emit calls follow, the bound reactive stays
\* the one of the first assignment.
C29_PromotionOnce ==
    \A s \in Sources :
        /\ promotions[s] <= 1
        /\ reactive[s] <=> promotions[s] = 1

C29_Witness ==
    /\ promotions["a"] = 1
    /\ subscribedAt["hS"] = 0 /\ subscribedAt["hS2"] = 0
    /\ released["hS"] = <<"unsubscribe">>
    /\ log["hS"] = <<1>> /\ log["hS2"] = <<1, 2, 1>>

\* C30 (first emission promotes): a source event that emit was called on is
\* bound, so that every later emit call takes the update path of the bound
\* reactive and not the first-emit queue.
C30_FirstEmitPromotes ==
    \A s \in Sources : EmitVals(s) # <<>> => reactive[s]

\* What the code does: an emit call promotes only when it finds a handler in
\* the first-emit queue, so a handler of a source event that has received a
\* value is a handler of a bound source event
C30_DeliveryPromotes ==
    \A h \in Handlers :
        (Target[h] \in Sources /\ log[h] # <<>>) => reactive[Target[h]]

\* ------------------------------------------------------------------------
\* Late subscribers, registration and unregistration during a delivery
\* ------------------------------------------------------------------------

\* C34 (late subscribers): a handler subscribed to a source event has
\* received every value emitted on it after its subscription, once and in
\* order, whether it subscribed before or after the first emission.
C34_LateSubscribers ==
    \A h \in Handlers :
        (Target[h] \in Sources /\ subscribedAt[h] # -1) =>
            log[h] = EmitValsOf(After(emits, subscribedAt[h]), Target[h])

\* What the code does: the handlers subscribed before the first emit call
\* receive every value
C34_EarlySubscribers ==
    \A h \in Handlers :
        (Target[h] \in Sources /\ subscribedAt[h] = 0) =>
            log[h] = EmitVals(Target[h])

\* User handler h is registered with reactive r
Registered(r, h) == \E i \in 1..Len(rx[r].subs) : rx[r].subs[i] = UserH(h)

\* C37 (quiescent consistency): between emit calls, every user handler
\* registered with a reactive and notified at least once was last notified
\* of the reactive's current value.
C37_QuiescentConsistency ==
    \A r \in Reactives, h \in Handlers :
        (Registered(r, h) /\ log[h] # <<>>) => Last(log[h]) = rx[r].cur

\* What the code does: the property holds as long as no handler emits
\* during a delivery
C37_QuiescentNoReentry ==
    fixture # "reenter" => C37_QuiescentConsistency

\* C31 (future of a reactive): a handler a Future.fromReactive(r) was run
\* with has been invoked, at once with the value r had then and once for
\* every later update, so that it was last notified of r's current value.
C31_FromReactiveCurrent ==
    \A h \in Wiring[fixture].fromr :
        subscribedAt[h] # -1 =>
            /\ log[h] # <<>>
            /\ Last(log[h]) = rx[Target[h]].cur

\* What the code does: the handler is notified of the later updates only
C31_FromReactiveUpdates ==
    \A h \in Wiring[fixture].fromr :
        subscribedAt[h] # -1 =>
            /\ Len(log[h]) <= Len(emits) - subscribedAt[h]
            /\ log[h] # <<>> => Last(log[h]) = rx[Target[h]].cur

\* The first n elements of seq, all of them if it has fewer
FirstN(seq, n) == SubSeq(seq, 1, IF Len(seq) < n THEN Len(seq) ELSE n)

\* User handler g subscribed before user handler h
Before(g, h) ==
    \E i, j \in 1..Len(subOrder) :
        i < j /\ subOrder[i] = g /\ subOrder[j] = h

\* C32 (unregistering during notification): a handler that is registered
\* and is never unregistered has been invoked exactly once for every value
\* emitted since, also when another handler unregistered itself (hD1, on the
\* source event d) or a third handler (hK, on the source event a) during
\* the delivery.
C32_UnregisterDuringDelivery ==
    /\ \A h \in {"hD2", "hD3"} :
           subscribedAt[h] # -1 =>
               log[h] = EmitValsOf(After(emits, subscribedAt[h]), "d")
    /\ (fixture = "unreg" /\ subscribedAt["hS"] = 0) =>
           log["hS"] = EmitVals("a")

\* What the code does: the first-emit queue and the subscribers of a
\* ReactiveImpl are replaced, not changed, by an unsubscribe function, so
\* the third handler on a misses nothing
C32_UnregisterOnReplacedArray ==
    (fixture = "unreg" /\ subscribedAt["hS"] = 0) =>
        log["hS"] = EmitVals("a")

\* C38 (no delivery after unregistration inside a round): hK, subscribed
\* before hV and from the start, calls the unsubscribe function of hV in
\* every delivery before hV's turn, so hV is never invoked.
C38_NoDeliveryAfterUnregister ==
    (subscribedAt["hK"] = 0 /\ subscribedAt["hV"] = 0 /\ Before("hK", "hV")) =>
        log["hV"] = <<>>

\* What the code does: hV is invoked in the rounds in which it is
\* unregistered (the first emission and the first update), and in no later
\* one
C38_DeliveryInTheRoundOnly ==
    (subscribedAt["hK"] = 0 /\ subscribedAt["hV"] = 0 /\ Before("hK", "hV")) =>
        log["hV"] = FirstN(EmitVals("a"), 2)

\* The source events that hold the emit function of the result of switch
SwitchSources == {s \in Sources : EmitH("sw") \in Held(s)}

\* C33 (switch keeps a single current subscription): once switch is built
\* and as long as its result is not cleaned up, the emit function of the
\* result is subscribed to the current event (the initial one or the latest
\* occurrence of the event of events) and to no other.
C33_SwitchSingleSubscription ==
    (swCurrent # "none" /\ ~swGone.done) => SwitchSources = {swCurrent}

C33_Witness ==
    /\ fixture = "swone"
    /\ madeAt["sw"] = 0
    /\ emits = <<<<"sel", 2>>, <<"b", 2>>, <<"sel", 1>>>>
    /\ swCurrent = "a"
    /\ SwitchSources = {"a"}

\* C35 (disposing a replaced source leaves other parties untouched): the
\* handler user code subscribed to a from the start has received every
\* occurrence of a, whatever switch did with a in between.
C35_OthersUntouched ==
    (fixture = "swone" /\ subscribedAt["hS"] = 0) => log["hS"] = EmitVals("a")

\* What the code does: the handler receives occurrences of a only, none
\* twice, but not all of them
C35_OthersNothingElse ==
    (fixture = "swone" /\ subscribedAt["hS"] = 0) =>
        IsSubSeq(log["hS"], EmitVals("a"))
\* C36: for m = r.map(f), whenever no update is in progress, m.get() equals
\* f(r.get())
C36_MappedTracksParent ==
    \A m \in Maps :
        madeAt[m] # -1 => rx[m].cur = ApplyFn(MapDef[m].f, rx[MapDef[m].parent].cur)

\* What does hold: a mapped reactive built when its parent already had a
\* changeEvent tracks the parent
C36_MappedTracksWithChangeEvent ==
    \A m \in Maps :
        (madeAt[m] # -1 /\ rclean[m] # <<>>)
            => rx[m].cur = ApplyFn(MapDef[m].f, rx[MapDef[m].parent].cur)

\* The handlers the latest emit call invoked
Notified == {order[i] : i \in DOMAIN order}

\* C39: every pair delivered to a subscriber of a.zip(b) consists of the
\* most recent occurrence of a and the most recent occurrence of b at
\* delivery time, also after earlier subscribers were unsubscribed and a or
\* b emitted while the zipped stream had no subscriber
C39_ZipNeverStale ==
    \A h \in {"hZ", "hZ2"} :
        (fixture = "rezip" /\ h \in Notified)
            => Last(log[h]) = <<Last(EmitVals("a")), Last(EmitVals("b"))>>

\* What does hold: the pairs are fresh as long as no subscriber of the
\* zipped stream was unsubscribed
C39_ZipFreshWhileSubscribed ==
    \A h \in {"hZ", "hZ2"} :
        (fixture = "rezip" /\ h \in Notified /\ frozen["hZ"].unsub = -1)
            => Last(log[h]) = <<Last(EmitVals("a")), Last(EmitVals("b"))>>

\* How many registrations of the user handler h its reactive holds
Registrations(h) ==
    Len(SelectSeq(rx[Target[h]].subs, LAMBDA g : g = UserH(h)))

\* C40: when the same handler function is subscribed twice to a reactive,
\* calling one of the two unregister functions removes only that
\* registration: the handler is still notified of every later update, so
\* the value it received last is the current one
C40_RegistrationsIndependent ==
    \A h \in twice :
        frozen[h].unsub # -1
            => (Registrations(h) = 1 /\ Last(log[h]) = rx[Target[h]].cur)

\* What does hold: until an unregister function is called, both
\* registrations are held and served
C40_BothRegistered ==
    \A h \in twice :
        frozen[h].unsub = -1
            => (Registrations(h) = 2 /\ Last(log[h]) = rx[Target[h]].cur)

====
